---- MODULE Spec2Model ----
(***************************************************************************)
(* TSSH, a minimal SSH-2 client: the packet transport (ssh_stream.rs), the *)
(* cipher state and key exchange (encrypter.rs), the connection driver     *)
(* (lib.rs: run, exchange_keys, authenticate, the session loop) and the    *)
(* keystroke writer thread (writer.rs).                                    *)
(*                                                                         *)
(* The main thread ("reader") is a sequential program whose position is    *)
(* pc; every blocking read takes one record chosen by the server.  The     *)
(* writer thread runs beside it once the shell is running; the two share   *)
(* the send cipher state and the remote window, each behind a Mutex.       *)
(*                                                                         *)
(* Cryptographic values are symbolic: a hash is the tuple of its inputs,   *)
(* an IV is the number of 16-octet blocks consumed since it was derived,   *)
(* a MAC is the pair (sequence number it was computed over, whether key    *)
(* and record match).                                                      *)
(***************************************************************************)
EXTENDS Integers, Sequences, FiniteSets, TLC

(***************************************************************************)
(* Bounds of the model                                                     *)
(***************************************************************************)
\* records of a type that is not waited for, accepted during one key exchange
MaxSkip == 1
\* key re-exchanges a caller of Encrypter::new starts (SpecRekex only)
MaxRekex == 1
\* records that leave the authentication loop where it is (banners, other
\* types), counted together with the records the key exchange skipped
MaxAuthNoise == 1
\* records the session loop reads
MaxSessMsgs == 4
\* terminal events the writer polls that make it send something
MaxKeys == 2
\* largest window and adjustment the server grants
MaxWin == 2

(***************************************************************************)
(* Message numbers                                                         *)
(***************************************************************************)
SSH_MSG_DISCONNECT == 1
SSH_MSG_SERVICE_REQUEST == 5
SSH_MSG_SERVICE_ACCEPT == 6
SSH_MSG_KEXINIT == 20
SSH_MSG_NEWKEYS == 21
SSH_MSG_KEX_ECDH_INIT == 30
SSH_MSG_KEX_ECDH_REPLY == 31
SSH_USERAUTH_REQUEST == 50
SSH_MSG_USERAUTH_FAILURE == 51
SSH_MSG_USERAUTH_SUCCESS == 52
SSH_MSG_USERAUTH_BANNER == 53
SSH_MSG_USERAUTH_PASSWD_CHANGEREQ == 60
SSH_MSG_GLOBAL_REQUEST == 80
SSH_MSG_REQUEST_SUCCESS == 81
SSH_MSG_CHANNEL_OPEN == 90
SSH_MSG_CHANNEL_OPEN_CONFIRMATION == 91
SSH_MSG_CHANNEL_OPEN_FAILURE == 92
SSH_MSG_CHANNEL_WINDOW_ADJUST == 93
SSH_MSG_CHANNEL_DATA == 94
SSH_MSG_CHANNEL_EXTENDED_DATA == 95
SSH_MSG_CHANNEL_REQUEST == 98
SSH_MSG_CHANNEL_SUCCESS == 99
SSH_MSG_CHANNEL_FAILURE == 100

\* the window open_channel advertises and every WINDOW_ADJUST restores
LocalWindow == 2097152

(***************************************************************************)
(* Algorithm lists (lib.rs) and negotiation                                *)
(***************************************************************************)
KEX_ALGS == <<"ecdh-sha2-nistp256">>
HOST_KEY_ALGS == <<"rsa-sha2-512">>
ENCRYPT_ALGS == <<"aes256-ctr">>
MAC_ALGS == <<"hmac-sha2-256">>
COMPRESS_ALGS == <<"none">>

\* The eight negotiated slots, in the order exchange_keys negotiates them,
\* each with the client's preference list.
ClientAlgs ==
  << KEX_ALGS, HOST_KEY_ALGS, ENCRYPT_ALGS, ENCRYPT_ALGS,
     MAC_ALGS, MAC_ALGS, COMPRESS_ALGS, COMPRESS_ALGS >>

\* Err of negotiate_alg
NoAlg == ""

\* a negotiation that follows the server's order of preference
negotiate_server_first(client, server) ==
  LET hits == { j \in 1..Len(server) :
                  \E i \in 1..Len(client) : client[i] = server[j] }
  IN  IF hits = {} THEN NoAlg
      ELSE server[CHOOSE j \in hits : \A k \in hits : j <= k]

\* first name of the client list that occurs in the server list
negotiate_alg(client, server) ==
  LET hits == { i \in 1..Len(client) :
                  \E j \in 1..Len(server) : server[j] = client[i] }
  IN  IF hits = {} THEN NoAlg
      ELSE client[CHOOSE i \in hits : \A k \in hits : i <= k]

(***************************************************************************)
(* Packet framing                                                          *)
(***************************************************************************)
\* block size send and read use: the cipher's when one is given, else 8
BlockSize(on) == IF on THEN 16 ELSE 8

\* a padding that only fills the last block
padding_to_block(payload_length, block_size) ==
  (block_size - ((payload_length + 5) % block_size)) % 256

\* SshStream::send, the padding computed for a payload (the u8 cast keeps
\* the value: it is between 1 and block_size)
padding_length(payload_length, block_size) ==
  LET p == (block_size - ((payload_length + 5) % block_size)) % 256
  IN  IF p < 4 THEN (p + block_size) % 256 ELSE p

packet_length(payload_length, block_size) ==
  payload_length + padding_length(payload_length, block_size) + 1

\* 16-octet blocks aes256_ctr_encrypt consumes for one sent record
SendBlocks(payload_length) == (packet_length(payload_length, 16) + 4) \div 16

\* An incoming record: len is the packet_length field, pad the
\* padding_length octet, tag the MAC that follows (seq: the sequence number
\* the peer computed it over, good: key and record are the right ones), msg
\* the payload.  SshStream::read, in the order of its checks.
ReadStatus(r, on) ==
  IF r.len < 12 THEN "too_small"
  ELSE IF r.len + 4 > 35000 THEN "too_large"
  ELSE IF r.len + (4 % BlockSize(on)) = 0 THEN "unaligned"
  ELSE IF on /\ (r.len - BlockSize(on) + 4) % 16 # 0 THEN "decrypt_size"
  ELSE IF r.pad < 4 THEN "pad_small"
  ELSE IF r.len - 2 < r.pad THEN "pad_large"
  ELSE "framed"

\* Encrypter::hmac_sha256_verify: the tag is recomputed over the current
\* receive sequence number and the record
hmac_sha256_verify(r, seq) == r.tag.good /\ r.tag.seq = seq

\* blocks aes256_ctr_decrypt consumes while read handles r: the first
\* block, then the rest unless read returned before it or its size is bad
DecryptBlocks(r) ==
  IF ReadStatus(r, TRUE) \in {"too_small", "too_large", "unaligned"} THEN 1
  ELSE IF ReadStatus(r, TRUE) = "decrypt_size" THEN 1
  ELSE 1 + (r.len - 16 + 4) \div 16

(***************************************************************************)
(* State                                                                   *)
(***************************************************************************)
VARIABLES
  pc,                 \* position of the main thread
  encOn,              \* 0: no Encrypter; n: the one built by key exchange n
  packet_num_send,    \* Encrypter.packet_num_send
  packet_num_recieve, \* Encrypter.packet_num_recieve
  iv_encrypt,         \* blocks consumed of Encrypter.iv_encrypt
  iv_decrypt,         \* blocks consumed of Encrypter.iv_decrypt
  session_id,         \* Encrypter.session_id
  keys,               \* the six derived keys, by letter
  kexNo,              \* key exchanges started on this connection
  old,                \* Encrypter::new was given Some(old)
  num_read,           \* num_read of exchange_keys / Encrypter::new
  exchange_hash,      \* H of the exchange in progress
  skipped,            \* records skipped in the exchange in progress
  reply,              \* the KEX_ECDH_REPLY of the exchange in progress
  sent,               \* records written to the byte duplex, by kind
  wireLast,           \* the last record written
  wireEnc,            \* records written under the installed Encrypter
  wireBlocks,         \* blocks those records hold
  actSend,            \* packet_num_send when the Encrypter was built
  actRecv,            \* packet_num_recieve when the Encrypter was built
  clearSent,          \* records sent with no Encrypter
  clearRecvd,         \* records read(None) returned
  accepted,           \* records read(Some) returned since the Encrypter was built
  dataAccepted,       \* octets of channel data the session loop has printed
  lastRead,           \* the last record read: how it was framed, its MAC, the
                      \* counter it met and how read ended
  attempt_counter,    \* authenticate: password requests sent
  authNoise,          \* authenticate: records that changed nothing
  state,              \* run: WaitingFor
  server_channel,     \* run: the channel number the server chose
  server_packet_max,  \* run: the server's maximum packet size
  local_window,       \* run: octets the server may still send
  remote_window,      \* the shared Mutex<u64>: octets the client may still send
  winGuard,           \* holder of the remote window's Mutex
  encGuard,           \* holder of the Encrypter's Mutex
  snd,                \* per thread, the send in progress
  rafter,             \* what the handler does once its send has returned
  sessMsgs,           \* records the session loop has read
  spawned,            \* the writer thread was started
  wpc,                \* position of the writer thread
  wchannel,           \* channel the writer was given
  wdata,              \* octets of the current key not yet sent
  wesc,               \* the current key is Esc
  wseen,              \* the window value wait_for_window last read
  wkeys,              \* events the writer has polled
  stop_flag,          \* the AtomicBool the writer loads at the top of its loop
  raw_mode,           \* the terminal is in raw mode
  call,               \* a function called on its own: its name and arguments
  ret,                \* what that call returned
  decrements          \* times wait_for_window took one octet of window

sendCtr == << packet_num_send, iv_encrypt >>
recvCtr == << packet_num_recieve, iv_decrypt >>
keyVars == << encOn, session_id, keys, actSend, actRecv >>
kexVars == << kexNo, old, num_read, exchange_hash, skipped, reply >>
wireVars == << sent, wireLast, wireEnc, wireBlocks, clearSent >>
recvVars == << clearRecvd, lastRead >>
authVars == << attempt_counter, authNoise >>
chanVars == << state, server_channel, server_packet_max, local_window,
               sessMsgs, rafter >>
winVars == << remote_window, winGuard, decrements >>
writerVars == << spawned, wpc, wchannel, wdata, wesc, wseen, wkeys,
                 stop_flag, raw_mode >>
lockVars == << encGuard, snd >>
unitVars == << call, ret >>
\* the state of a run of the client
runVars == << pc, sendCtr, recvCtr, keyVars, kexVars, wireVars, recvVars,
              accepted, dataAccepted, authVars, chanVars, winVars, writerVars,
              lockVars >>
vars == << runVars, unitVars >>
\* everything but the key exchange touches
restVars == << authVars, chanVars, winVars, writerVars, lockVars >>

(***************************************************************************)
(* Messages the client sends                                               *)
(***************************************************************************)
SentKinds ==
  { "kexinit", "ecdh_init", "newkeys", "service_request", "auth_none",
    "auth_password", "channel_open", "pty-req", "shell", "window_adjust",
    "channel_failure", "open_failure", "data", "window-change" }

\* a payload the client sends: plen is its length (the type octet and the
\* fields the source appends), arg the fields the properties look at
Payload(kind, typ, plen, arg) ==
  [kind |-> kind, typ |-> typ, plen |-> plen, arg |-> arg]

MsgKexInit == Payload("kexinit", SSH_MSG_KEXINIT, 146, <<>>)
MsgEcdhInit == Payload("ecdh_init", SSH_MSG_KEX_ECDH_INIT, 70, <<>>)
MsgNewKeys == Payload("newkeys", SSH_MSG_NEWKEYS, 1, <<>>)
MsgServiceRequest ==
  Payload("service_request", SSH_MSG_SERVICE_REQUEST, 17, <<>>)
\* a user name of 4 octets and a password of 6
MsgAuthNone == Payload("auth_none", SSH_USERAUTH_REQUEST, 35, <<>>)
MsgAuthPassword == Payload("auth_password", SSH_USERAUTH_REQUEST, 50, <<>>)
\* open_channel: the channel type, the sender channel, the initial window
\* and the maximum packet size
MsgChannelOpen ==
  Payload("channel_open", SSH_MSG_CHANNEL_OPEN, 24,
          <<"session", 0, 2097152, 32768>>)
MsgPtyReq == Payload("pty-req", SSH_MSG_CHANNEL_REQUEST, 106, <<>>)
MsgShell == Payload("shell", SSH_MSG_CHANNEL_REQUEST, 15, <<>>)
\* the recipient channel and the octets added
MsgWindowAdjust(channel) ==
  Payload("window_adjust", SSH_MSG_CHANNEL_WINDOW_ADJUST, 9,
          <<channel, 2097152>>)
\* the recipient channel
MsgChannelFailure(channel) ==
  Payload("channel_failure", SSH_MSG_CHANNEL_FAILURE, 5, <<channel>>)
\* the four octets copied from the request, and
\* SSH_OPEN_ADMINISTRATIVELY_PROHIBITED
MsgOpenFailure(sender) ==
  Payload("open_failure", SSH_MSG_CHANNEL_OPEN_FAILURE, 61, <<sender, 1>>)
\* the recipient channel, the length of the string and its one octet
MsgData(channel, byte) ==
  Payload("data", SSH_MSG_CHANNEL_DATA, 10, <<channel, 1, byte>>)
\* a request that gives the height where the width belongs
window_change_swapped(channel, width, height) ==
  Payload("window-change", SSH_MSG_CHANNEL_REQUEST, 39,
          <<channel, "window-change", FALSE, height, width, 0, 0>>)

\* the recipient channel, the request name, want-reply, the size in
\* characters and the size in pixels
MsgWindowChange(channel, width, height) ==
  Payload("window-change", SSH_MSG_CHANNEL_REQUEST, 39,
          <<channel, "window-change", FALSE, width, height, 0, 0>>)
NoMsg == Payload("none", 0, 0, <<>>)

NoRecord ==
  [kind |-> "none", typ |-> 0, epoch |-> 0, seq |-> 0, iv |-> 0,
   idx |-> 0, off |-> 0, arg |-> <<>>]

\* stream.write_all(&packet), stream.write_all(&mac): the record reaches the
\* byte duplex.  epoch 0 is a cleartext record; seq is the number its MAC
\* was computed over and iv the first IV block it was encrypted with; idx
\* and off are the records and blocks written before it under that cipher.
WireWrite(m, epoch, seq, iv) ==
  /\ sent' = [sent EXCEPT ![m.kind] = @ + 1]
  /\ wireLast' = [kind |-> m.kind, typ |-> m.typ, epoch |-> epoch,
                  seq |-> seq, iv |-> iv,
                  idx |-> IF epoch = 0 THEN 0 ELSE wireEnc,
                  off |-> IF epoch = 0 THEN 0 ELSE wireBlocks,
                  arg |-> m.arg]
  /\ wireEnc' = IF epoch = 0 THEN wireEnc ELSE wireEnc + 1
  /\ wireBlocks' = IF epoch = 0 THEN wireBlocks
                   ELSE wireBlocks + SendBlocks(m.plen)
  /\ clearSent' = IF epoch = 0 THEN clearSent + 1 ELSE clearSent

\* a mac that leaves the counter where it is
MacKeeps(n) == n

\* Encrypter::mac: the tag is over the current counter, which then advances
MacNext(n) == n + 1

\* a send that is handed None whatever the caller holds
SendSyncNone(m, on) ==
  /\ WireWrite(m, 0, 0, 0)
  /\ UNCHANGED << packet_num_send, iv_encrypt >>

\* SshStream::send called by the only thread there is (key exchange,
\* authentication, open_channel): with an Encrypter, mac, encrypt, write;
\* without, write.
SendSync(m, on) ==
  IF on
  THEN /\ WireWrite(m, encOn, packet_num_send, iv_encrypt)
       /\ packet_num_send' = MacNext(packet_num_send)
       /\ iv_encrypt' = iv_encrypt + SendBlocks(m.plen)
  ELSE /\ WireWrite(m, 0, 0, 0)
       /\ UNCHANGED << packet_num_send, iv_encrypt >>

(***************************************************************************)
(* Records the server may send                                             *)
(***************************************************************************)
\* what the server may advertise in its KEXINIT, per slot
ServerOffers ==
  { [s \in 1..8 |-> ClientAlgs[s]],
    [s \in 1..8 |-> IF s \in {3, 4}
                    THEN <<"chacha20-poly1305@openssh.com">>
                    ELSE ClientAlgs[s]],
    [s \in 1..8 |-> IF s = 1
                    THEN <<"curve25519-sha256", "ecdh-sha2-nistp256">>
                    ELSE ClientAlgs[s]] }

\* the exchange hash of key exchange n, and the hashes a host-key signature
\* may be over
ExchangeHash(n) == <<"H", n>>
Hashes == { ExchangeHash(n) : n \in 0..(MaxRekex + 1) }

KexInitMsgs ==
  { [typ |-> SSH_MSG_KEXINIT, short |-> sh, offer |-> o] :
      sh \in BOOLEAN, o \in ServerOffers }

EcdhReplyMsgs ==
  { [typ |-> SSH_MSG_KEX_ECDH_REPLY, short |-> FALSE, pointOk |-> p,
     keyType |-> kt, rsaOk |-> k, sigType |-> st, sigOver |-> h] :
      p \in BOOLEAN, kt \in {"ssh-rsa", "ssh-ed25519"}, k \in BOOLEAN,
      st \in {"rsa-sha2-512", "ssh-rsa"}, h \in Hashes }

PlainMsgs ==
  { [typ |-> t, short |-> sh] :
      t \in {SSH_MSG_DISCONNECT, SSH_MSG_NEWKEYS, SSH_MSG_SERVICE_ACCEPT},
      sh \in BOOLEAN }

KexMsgs == KexInitMsgs \cup EcdhReplyMsgs \cup PlainMsgs

\* no KEX_ECDH_REPLY was read yet
NoReply == [typ |-> 0]

NoTag == [seq |-> 0, good |-> FALSE]
Dummy == [typ |-> SSH_MSG_DISCONNECT, short |-> FALSE]

\* a framing read(None) accepts, and one that fails each of its checks
\* (13 is accepted: the alignment test never fires)
ClearGood == { [len |-> 28, pad |-> 4], [len |-> 13, pad |-> 4] }
ClearBad ==
  { [len |-> 8, pad |-> 4], [len |-> 35000, pad |-> 4],
    [len |-> 28, pad |-> 3], [len |-> 12, pad |-> 11] }

Framed(fs, ms) ==
  { [len |-> f.len, pad |-> f.pad, tag |-> NoTag, msg |-> m] :
      f \in fs, m \in ms }

ClearRecords == Framed(ClearGood, KexMsgs) \cup Framed(ClearBad, {Dummy})

(***************************************************************************)
(* Receiving                                                               *)
(***************************************************************************)
\* a read that returns the payload without looking at the MAC
RecvStatusNoMac(r, on) ==
  IF ReadStatus(r, on) # "framed" THEN ReadStatus(r, on) ELSE "ok"

\* how SshStream::read ends on record r when given an Encrypter (on) or None
RecvStatus(r, on) ==
  IF ReadStatus(r, on) # "framed" THEN ReadStatus(r, on)
  ELSE IF on /\ ~hmac_sha256_verify(r, packet_num_recieve) THEN "bad_mac"
  ELSE "ok"

\* Encrypter::verify is called: read got as far as the MAC
VerifyRuns(r, on) == on /\ ReadStatus(r, on) = "framed"

\* Encrypter::verify: the counter advances whatever the result
VerifyNext(n) == n + 1

\* the Encrypter's receive half after read handled r
RecvCounters(r, on) ==
  /\ packet_num_recieve' = IF VerifyRuns(r, on)
                           THEN VerifyNext(packet_num_recieve)
                           ELSE packet_num_recieve
  /\ iv_decrypt' = IF on THEN iv_decrypt + DecryptBlocks(r) ELSE iv_decrypt

AcceptedNext(r, on) ==
  IF on /\ RecvStatus(r, on) = "ok" THEN accepted + 1 ELSE accepted

\* the Err of SshStream::read on record r ("" when it returns the payload)
ReadErr(r, on) == IF RecvStatus(r, on) = "ok" THEN "" ELSE RecvStatus(r, on)

\* the Err of read_until_no_encrypter / read_until on record r; fail and
\* msg are the caller's own check of the packet waited for
WaitErr(r, on, wait_type, fail, msg) ==
  IF RecvStatus(r, on) # "ok" THEN RecvStatus(r, on)
  ELSE IF r.msg.typ = wait_type THEN (IF fail THEN msg ELSE "")
  ELSE IF r.msg.typ = SSH_MSG_DISCONNECT
  THEN "Host sent ssh disconnect message"
  ELSE ""

\* err is the Err the caller returns after this read ("" when it goes on)
RecvGhost(r, on, err) ==
  /\ clearRecvd' = IF ~on /\ RecvStatus(r, on) = "ok"
                   THEN clearRecvd + 1 ELSE clearRecvd
  /\ lastRead' = [cipher |-> on, keyed |-> encOn # 0,
                  status |-> RecvStatus(r, on),
                  tag |-> r.tag, seq |-> packet_num_recieve, err |-> err]

\* a wait that skips a disconnect like any other record
WaitOutcomeSkipsDisconnect(r, on, wait_type) ==
  IF RecvStatus(r, on) # "ok" THEN "error"
  ELSE IF r.msg.typ = wait_type THEN "match"
  ELSE "skip"

\* read_until_no_encrypter / read_until: one turn of the loop
WaitOutcome(r, on, wait_type) ==
  IF RecvStatus(r, on) # "ok" THEN "error"
  ELSE IF r.msg.typ = wait_type THEN "match"
  ELSE IF r.msg.typ = SSH_MSG_DISCONNECT THEN "error"
  ELSE "skip"

(***************************************************************************)
(* Key exchange: exchange_keys and Encrypter::new                          *)
(***************************************************************************)
Threads == { "reader", "writer" }

(***************************************************************************)
(* The remote window is a u64 and the amounts added to it are u32: values  *)
(* beyond the range of the checker's integers.  A quantity is held as two  *)
(* limbs, hi * 2^16 + lo with lo below 2^16; a u32 has hi below 2^16 too.  *)
(***************************************************************************)
Limb == 256 * 256

Wide(n) == [hi |-> n \div Limb, lo |-> n % Limb]

\* 2^32 - 1, the largest amount a packet can carry
U32Max == [hi |-> Limb - 1, lo |-> Limb - 1]

WideAdd(x, y) ==
  [hi |-> x.hi + y.hi + (x.lo + y.lo) \div Limb, lo |-> (x.lo + y.lo) % Limb]

WideDec(x) ==
  IF x.lo > 0 THEN [x EXCEPT !.lo = @ - 1]
  ELSE [hi |-> x.hi - 1, lo |-> Limb - 1]

WideIsPositive(x) == x.hi > 0 \/ (x.hi = 0 /\ x.lo > 0)

\* an accumulator of 32 bits: the sum is cut at 2^32
window_add_u32(size, amount) ==
  [WideAdd(size, amount) EXCEPT !.hi = @ % Limb]

\* run, "*size += add_amount": size is the u64 behind the Mutex and
\* add_amount the u32 of the packet widened to u64
window_add(size, amount) == WideAdd(size, amount)

\* no send in progress
Idle == [stage |-> "idle", msg |-> NoMsg, seq |-> 0, iv |-> 0]

\* nothing left to do after the send
NoAfter ==
  [state |-> "None", server_channel |-> 0, server_packet_max |-> 0,
   local_window |-> 0, winop |-> "none", winval |-> Wide(0)]

\* no function is called on its own in a run of the client
NoCall == [fn |-> "none"]
Pending == [done |-> FALSE]

\* the locals of run and the ghosts of the duplex when TcpStream::connect
\* has returned
Opened ==
  /\ encOn = 0
  /\ packet_num_send = 0
  /\ packet_num_recieve = 0
  /\ iv_encrypt = 0
  /\ iv_decrypt = 0
  /\ session_id = <<>>
  /\ keys = <<>>
  /\ kexNo = 0
  /\ old = FALSE
  /\ num_read = 0
  /\ exchange_hash = <<>>
  /\ skipped = 0
  /\ reply = NoReply
  /\ sent = [k \in SentKinds |-> 0]
  /\ wireLast = NoRecord
  /\ wireEnc = 0
  /\ wireBlocks = 0
  /\ actSend = 0
  /\ actRecv = 0
  /\ clearSent = 0
  /\ clearRecvd = 0
  /\ accepted = 0
  /\ dataAccepted = 0
  /\ lastRead = [cipher |-> FALSE, keyed |-> FALSE,
                 status |-> "none", tag |-> NoTag, seq |-> 0,
                 err |-> ""]
  /\ attempt_counter = 0
  /\ authNoise = 0
  /\ state = "None"
  /\ server_channel = 0
  /\ server_packet_max = 0
  /\ local_window = 0
  /\ remote_window = Wide(0)
  /\ winGuard = "free"
  /\ encGuard = "free"
  /\ snd = [t \in Threads |-> Idle]
  /\ rafter = NoAfter
  /\ sessMsgs = 0
  /\ spawned = FALSE
  /\ wpc = "w_none"
  /\ wchannel = 0
  /\ wdata = <<>>
  /\ wesc = FALSE
  /\ wseen = Wide(0)
  /\ wkeys = 0
  /\ stop_flag = FALSE
  /\ raw_mode = FALSE
  /\ decrements = 0

\* run after TcpStream::connect and exchange_versions
Connected ==
  /\ pc = "kexinit_send"
  /\ Opened

Init ==
  /\ Connected
  /\ call = NoCall
  /\ ret = Pending

\* exchange_keys: the KEXINIT is sent with no Encrypter
SendKexInit ==
  /\ pc = "kexinit_send"
  /\ SendSync(MsgKexInit, FALSE)
  /\ kexNo' = kexNo + 1
  /\ num_read' = 0
  /\ skipped' = 0
  /\ pc' = "kexinit_wait"
  /\ UNCHANGED << recvCtr, keyVars, old, exchange_hash, reply, recvVars,
                  accepted, dataAccepted, restVars >>
  /\ UNCHANGED unitVars

\* all eight slots negotiated against the server's offer
Negotiated(offer) ==
  \A s \in 1..8 : negotiate_alg(ClientAlgs[s], offer[s]) # NoAlg

\* exchange_keys: read_until_no_decrypter(SSH_MSG_KEXINIT), the length
\* check and the negotiation
ReadKexInit ==
  /\ pc = "kexinit_wait"
  /\ \E r \in ClearRecords :
       LET out == WaitOutcome(r, FALSE, SSH_MSG_KEXINIT) IN
       /\ out = "skip" => skipped < MaxSkip
       /\ RecvGhost(r, FALSE,
            WaitErr(r, FALSE, SSH_MSG_KEXINIT,
                    r.msg.short \/ ~Negotiated(r.msg.offer),
                    IF r.msg.short
                    THEN "Key exchange packet is not large enough"
                    ELSE "Could not find compatible algorithms"))
       /\ num_read' = IF RecvStatus(r, FALSE) = "ok"
                      THEN num_read + 1 ELSE num_read
       /\ skipped' = IF out = "skip" THEN skipped + 1 ELSE skipped
       /\ pc' = CASE out = "error" -> "error"
                  [] out = "skip" -> "kexinit_wait"
                  [] OTHER -> IF r.msg.short \/ ~Negotiated(r.msg.offer)
                              THEN "error" ELSE "ecdh_send"
  /\ UNCHANGED << sendCtr, recvCtr, keyVars, kexNo, old, exchange_hash,
                  reply, wireVars, accepted, dataAccepted, restVars >>
  /\ UNCHANGED unitVars

\* ecdh_sha2_nistp256_exchange: KEX_ECDH_INIT goes out under old.as_mut()
SendEcdhInit ==
  /\ pc = "ecdh_send"
  /\ SendSync(MsgEcdhInit, old)
  /\ pc' = "ecdh_wait"
  /\ UNCHANGED << recvCtr, keyVars, kexVars, recvVars, accepted, dataAccepted,
                  restVars >>
  /\ UNCHANGED unitVars

\* Encrypter::rsa_sha2_512_verify on the host key and signature of reply m
rsa_sha2_512_verify(m, hash) ==
  IF m.keyType # "ssh-rsa" THEN "err"
  ELSE IF ~m.rsaOk THEN "err"
  ELSE IF m.sigType # "rsa-sha2-512" THEN "err"
  ELSE IF m.sigOver # hash THEN "err"
  ELSE "ok"

\* a verify_hash that accepts every signature
verify_hash_any(m, hash) == "ok"

\* Encrypter::verify_hash
verify_hash(m, hash) == rsa_sha2_512_verify(m, hash)

\* what follows the KEX_ECDH_REPLY: the point is parsed, H computed and its
\* signature verified
ReplyAccepted(m) ==
  /\ ~m.short
  /\ m.pointOk
  /\ verify_hash(m, ExchangeHash(kexNo)) = "ok"

\* the Err ecdh_sha2_nistp256_exchange returns on a reply it does not accept
ReplyErr(m) ==
  IF m.short THEN "short"
  ELSE IF ~m.pointOk THEN "Failed to parse ecdh public key"
  ELSE IF m.keyType # "ssh-rsa" THEN "Invalid host key type: Expected ssh-rsa"
  ELSE IF ~m.rsaOk THEN "Invalid RSA host key"
  ELSE IF m.sigType # "rsa-sha2-512"
  THEN "Invalid signature type: Expected rsa-sha2-512"
  ELSE "Failed to validate signature of exchange hash"

ReadEcdhReply ==
  /\ pc = "ecdh_wait"
  /\ \E r \in ClearRecords :
       LET out == WaitOutcome(r, FALSE, SSH_MSG_KEX_ECDH_REPLY) IN
       /\ out = "skip" => skipped < MaxSkip
       /\ RecvGhost(r, FALSE,
            WaitErr(r, FALSE, SSH_MSG_KEX_ECDH_REPLY, ~ReplyAccepted(r.msg),
                    ReplyErr(r.msg)))
       /\ num_read' = IF RecvStatus(r, FALSE) = "ok"
                      THEN num_read + 1 ELSE num_read
       /\ skipped' = IF out = "skip" THEN skipped + 1 ELSE skipped
       /\ exchange_hash' = IF out = "match" /\ ~r.msg.short /\ r.msg.pointOk
                           THEN ExchangeHash(kexNo) ELSE exchange_hash
       /\ reply' = IF out = "match" THEN r.msg ELSE reply
       /\ pc' = CASE out = "error" -> "error"
                  [] out = "skip" -> "ecdh_wait"
                  [] OTHER -> IF ReplyAccepted(r.msg)
                              THEN "newkeys_send" ELSE "error"
  /\ UNCHANGED << sendCtr, recvCtr, keyVars, kexNo, old, wireVars, accepted,
                  dataAccepted, restVars >>
  /\ UNCHANGED unitVars

\* Encrypter::new: NEWKEYS goes out under old.as_mut()
SendNewKeys ==
  /\ pc = "newkeys_send"
  /\ SendSync(MsgNewKeys, old)
  /\ pc' = "newkeys_wait"
  /\ UNCHANGED << recvCtr, keyVars, kexVars, recvVars, accepted, dataAccepted,
                  restVars >>
  /\ UNCHANGED unitVars

Letters == { "A", "B", "C", "D", "E", "F" }

\* Encrypter::generate_key: the first hash block, over K, H, the letter and
\* the session identifier (the outputs asked for fit in one block)
generate_key(key, hash, letter, sid) ==
  [K |-> key, H |-> hash, L |-> letter, S |-> sid]

\* a state that takes the hash of its own exchange as session identifier
NewSessionIdFresh == exchange_hash

\* a receive counter that starts from the three records waited for
NewRecvCounterThree(n) == IF old THEN packet_num_recieve ELSE 3

\* Encrypter::new, "Extract info if key re-exchange": the session
\* identifier the new state keeps
NewSessionId == IF old THEN session_id ELSE exchange_hash

\* the counters the new state starts from
NewSendCounter == IF old THEN packet_num_send ELSE 3
NewRecvCounter(n) == IF old THEN packet_num_recieve ELSE n

\* Encrypter::new: read_until_no_encrypter(SSH_MSG_NEWKEYS), then the new
\* Encrypter is built
ReadNewKeys ==
  /\ pc = "newkeys_wait"
  /\ \E r \in ClearRecords :
       LET out == WaitOutcome(r, FALSE, SSH_MSG_NEWKEYS)
           built == out = "match" /\ ~r.msg.short
           n == IF RecvStatus(r, FALSE) = "ok" THEN num_read + 1 ELSE num_read
       IN
       /\ out = "skip" => skipped < MaxSkip
       /\ RecvGhost(r, FALSE,
            WaitErr(r, FALSE, SSH_MSG_NEWKEYS, r.msg.short,
                    "Recieved invalid SSH_MSG_NEWKEYS message"))
       /\ num_read' = n
       /\ skipped' = IF out = "skip" THEN skipped + 1 ELSE skipped
       /\ pc' = CASE out = "error" -> "error"
                  [] out = "skip" -> "newkeys_wait"
                  [] OTHER -> IF built THEN "kex_done" ELSE "error"
       /\ IF built
          THEN /\ encOn' = kexNo
               /\ session_id' = NewSessionId
               /\ keys' = [l \in Letters |->
                            generate_key(<<"K", kexNo>>, exchange_hash, l,
                                         NewSessionId)]
               /\ packet_num_send' = NewSendCounter
               /\ packet_num_recieve' = NewRecvCounter(n)
               /\ iv_encrypt' = 0
               /\ iv_decrypt' = 0
               /\ actSend' = NewSendCounter
               /\ actRecv' = NewRecvCounter(n)
               /\ wireEnc' = 0
               /\ wireBlocks' = 0
               /\ accepted' = 0
          ELSE UNCHANGED << sendCtr, recvCtr, keyVars, wireEnc, wireBlocks,
                            accepted >>
  /\ old' = IF pc' = "kex_done" THEN FALSE ELSE old
  /\ UNCHANGED << kexNo, exchange_hash, reply, sent, wireLast, clearSent,
                  dataAccepted, restVars >>
  /\ UNCHANGED unitVars

\* a caller hands the Encrypter back to Encrypter::new for a re-exchange
Reexchange ==
  /\ pc = "kex_done"
  /\ kexNo <= MaxRekex
  /\ \E n \in 0..1 : num_read' = n
  /\ kexNo' = kexNo + 1
  /\ old' = TRUE
  /\ skipped' = 0
  /\ reply' = NoReply
  /\ pc' = "ecdh_send"
  /\ UNCHANGED << sendCtr, recvCtr, keyVars, exchange_hash, wireVars, recvVars,
                  accepted, dataAccepted, restVars >>
  /\ UNCHANGED unitVars

(***************************************************************************)
(* Records the server may send once a cipher is installed                  *)
(***************************************************************************)
\* the framing read(Some) accepts, and one that fails each of its checks
EncGood == { [len |-> 28, pad |-> 4] }
EncBad ==
  { [len |-> 8, pad |-> 4], [len |-> 35000, pad |-> 4],
    [len |-> 20, pad |-> 4], [len |-> 28, pad |-> 3],
    [len |-> 28, pad |-> 27] }

\* the MAC the peer appends: the right one, one under another key or over
\* another record, one over the next sequence number
GoodTag == [seq |-> packet_num_recieve, good |-> TRUE]
BadTags ==
  { [seq |-> packet_num_recieve, good |-> FALSE],
    [seq |-> packet_num_recieve + 1, good |-> TRUE] }

Tagged(fs, ts, ms) ==
  { [len |-> f.len, pad |-> f.pad, tag |-> t, msg |-> m] :
      f \in fs, t \in ts, m \in ms }

EncRecords(ms) ==
  Tagged(EncGood, {GoodTag}, ms) \cup Tagged(EncGood, BadTags, {Dummy})
    \cup Tagged(EncBad, {GoodTag}, {Dummy})

ServiceAcceptMsgs ==
  { [typ |-> SSH_MSG_SERVICE_ACCEPT, short |-> sh, service |-> sv] :
      sh \in BOOLEAN, sv \in {"ssh-userauth", "ssh-connection"} }

AuthFailureMsgs ==
  { [typ |-> SSH_MSG_USERAUTH_FAILURE, short |-> sh, methods |-> ms] :
      sh \in BOOLEAN,
      ms \in { <<"password">>, <<"publickey">>,
               <<"publickey", "password">> } }

BareMsgs(types) == { [typ |-> t, short |-> sh] : t \in types, sh \in BOOLEAN }

AuthMsgs ==
  ServiceAcceptMsgs \cup AuthFailureMsgs
    \cup BareMsgs({ SSH_MSG_DISCONNECT, SSH_MSG_USERAUTH_SUCCESS,
                    SSH_MSG_USERAUTH_BANNER,
                    SSH_MSG_USERAUTH_PASSWD_CHANGEREQ,
                    SSH_MSG_GLOBAL_REQUEST })

(***************************************************************************)
(* authenticate                                                            *)
(***************************************************************************)
\* records are sent under the Encrypter exchange_keys returned
SendServiceRequest ==
  /\ pc = "kex_done"
  /\ SendSync(MsgServiceRequest, encOn # 0)
  /\ pc' = "accept_wait"
  /\ UNCHANGED << recvCtr, keyVars, kexVars, recvVars, accepted, dataAccepted,
                  restVars >>
  /\ UNCHANGED unitVars

\* read_until(SSH_MSG_SERVICE_ACCEPT, decrypter) and the check of the name
ReadServiceAccept ==
  /\ pc = "accept_wait"
  /\ \E r \in EncRecords(AuthMsgs) :
       LET out == WaitOutcome(r, TRUE, SSH_MSG_SERVICE_ACCEPT) IN
       /\ out = "skip" => skipped + authNoise < MaxAuthNoise
       /\ RecvGhost(r, TRUE,
            WaitErr(r, TRUE, SSH_MSG_SERVICE_ACCEPT,
                    r.msg.short \/ r.msg.service # "ssh-userauth",
                    IF r.msg.short THEN "panic"
                    ELSE "Invalid service accept message: Expected ssh-userauth"))
       /\ RecvCounters(r, TRUE)
       /\ accepted' = AcceptedNext(r, TRUE)
       /\ authNoise' = IF out = "skip" THEN authNoise + 1 ELSE authNoise
       /\ pc' = CASE out = "error" -> "error"
                  [] out = "skip" -> "accept_wait"
                  [] OTHER -> IF r.msg.short THEN "panic"
                              ELSE IF r.msg.service # "ssh-userauth"
                              THEN "error" ELSE "none_send"
  /\ UNCHANGED << sendCtr, keyVars, kexVars, wireVars, attempt_counter,
                  dataAccepted, chanVars, winVars, writerVars, lockVars >>
  /\ UNCHANGED unitVars

SendAuthNone ==
  /\ pc = "none_send"
  /\ SendSync(MsgAuthNone, TRUE)
  /\ attempt_counter' = 0
  /\ pc' = "auth_loop"
  /\ UNCHANGED << recvCtr, keyVars, kexVars, recvVars, accepted, dataAccepted,
                  authNoise, chanVars, winVars, writerVars, lockVars >>
  /\ UNCHANGED unitVars

\* a search of the name-list that finds every name
ContainsAny(list, s) == TRUE

\* s occurs in the name-list
Contains(list, s) == \E i \in 1..Len(list) : list[i] = s

\* an authenticate that never runs out of attempts
AttemptsUnlimited(n) == FALSE

\* authenticate, "if attempt_counter == 3": the prompts are used up
AttemptsExhausted(n) == n = 3

\* one turn of the loop of authenticate on message m: where it goes and
\* whether it sends a password request
AuthStep(m) ==
  CASE m.typ = SSH_MSG_DISCONNECT ->
         [pc |-> "error", ask |-> FALSE,
          err |-> "Host sent ssh disconnect message"]
    [] m.typ = SSH_MSG_USERAUTH_SUCCESS ->
         [pc |-> "open_channel", ask |-> FALSE, err |-> ""]
    [] m.typ = SSH_MSG_USERAUTH_FAILURE ->
         IF m.short THEN [pc |-> "panic", ask |-> FALSE, err |-> "panic"]
         ELSE IF ~Contains(m.methods, "password")
         THEN [pc |-> "error", ask |-> FALSE,
               err |-> "Host does not support password authentication"]
         ELSE IF AttemptsExhausted(attempt_counter)
         THEN [pc |-> "error", ask |-> FALSE,
               err |-> "Too many failed login attempts"]
         ELSE [pc |-> "auth_loop", ask |-> TRUE, err |-> ""]
    [] m.typ = SSH_MSG_USERAUTH_BANNER ->
         IF m.short THEN [pc |-> "panic", ask |-> FALSE, err |-> "panic"]
         ELSE [pc |-> "auth_loop", ask |-> FALSE, err |-> ""]
    [] m.typ = SSH_MSG_USERAUTH_PASSWD_CHANGEREQ ->
         [pc |-> "error", ask |-> FALSE,
          err |-> "Password expired and tssh does not support password changes"]
    [] OTHER -> [pc |-> "auth_loop", ask |-> FALSE, err |-> ""]

\* the records that leave the loop as it is
AuthIdle(m) ==
  /\ AuthStep(m).pc = "auth_loop"
  /\ ~AuthStep(m).ask

AuthLoop ==
  /\ pc = "auth_loop"
  /\ \E r \in EncRecords(AuthMsgs) :
       LET ok == RecvStatus(r, TRUE) = "ok"
           step == IF ok THEN AuthStep(r.msg)
                   ELSE [pc |-> "error", ask |-> FALSE, err |-> ReadErr(r, TRUE)]
       IN
       /\ (ok /\ AuthIdle(r.msg)) => skipped + authNoise < MaxAuthNoise
       /\ RecvGhost(r, TRUE, step.err)
       /\ RecvCounters(r, TRUE)
       /\ accepted' = AcceptedNext(r, TRUE)
       /\ authNoise' = IF ok /\ AuthIdle(r.msg)
                       THEN authNoise + 1 ELSE authNoise
       /\ pc' = step.pc
       /\ IF step.ask
          THEN /\ attempt_counter' = attempt_counter + 1
               /\ SendSync(MsgAuthPassword, TRUE)
          ELSE UNCHANGED << attempt_counter, sendCtr, wireVars >>
  /\ UNCHANGED << keyVars, kexVars, dataAccepted, chanVars, winVars,
                  writerVars, lockVars >>
  /\ UNCHANGED unitVars

\* open_channel, and the locals run sets up before its loop
OpenChannel ==
  /\ pc = "open_channel"
  /\ SendSync(MsgChannelOpen, TRUE)
  /\ local_window' = LocalWindow
  /\ server_channel' = 0
  /\ state' = "None"
  /\ server_packet_max' = 0
  /\ remote_window' = Wide(0)
  /\ pc' = "sess_read"
  /\ UNCHANGED << recvCtr, keyVars, kexVars, recvVars, accepted, dataAccepted,
                  authVars, sessMsgs, rafter, winGuard, decrements, writerVars,
                  lockVars >>
  /\ UNCHANGED unitVars

(***************************************************************************)
(* Records the server may send in the session                              *)
(***************************************************************************)
SrvChannels == { 3 }
SrvPacketMax == { 15, 32768 }
\* octets of channel data: one, one more than 100, and the octets of a run
\* of data messages that leaves exactly 100 of the initial window (a record
\* holds at most 35000 octets; only the last message of such a run can meet
\* the test that sends a WINDOW_ADJUST, so on the window the run acts as
\* one message does)
DataLens == { 1, 101, LocalWindow - 100 }

ChannelOpenMsgs ==
  { [typ |-> SSH_MSG_CHANNEL_OPEN, short |-> sh, sender |-> c] :
      sh \in BOOLEAN, c \in { 3, 4 } }

ConfirmMsgs ==
  { [typ |-> SSH_MSG_CHANNEL_OPEN_CONFIRMATION, short |-> sh, chan |-> c,
     server_channel |-> sc, window |-> w, packet_max |-> pm] :
      sh \in BOOLEAN, c \in {0, 1}, sc \in SrvChannels,
      w \in { Wide(n) : n \in 0..MaxWin }, pm \in SrvPacketMax }

AdjustMsgs ==
  { [typ |-> SSH_MSG_CHANNEL_WINDOW_ADJUST, short |-> sh, chan |-> c,
     amount |-> a] :
      sh \in BOOLEAN, c \in {0, 1}, a \in { Wide(1), U32Max } }

DataMsgs ==
  { [typ |-> t, short |-> sh, chan |-> c, n |-> n] :
      t \in {SSH_MSG_CHANNEL_DATA, SSH_MSG_CHANNEL_EXTENDED_DATA},
      sh \in BOOLEAN, c \in {0, 1}, n \in DataLens }

ChannelRequestMsgs ==
  { [typ |-> SSH_MSG_CHANNEL_REQUEST, short |-> sh, chan |-> c, want |-> w] :
      sh \in BOOLEAN, c \in {0, 1}, w \in BOOLEAN }

ReplyMsgs ==
  { [typ |-> t, short |-> sh, chan |-> c] :
      t \in {SSH_MSG_CHANNEL_SUCCESS, SSH_MSG_CHANNEL_FAILURE},
      sh \in BOOLEAN, c \in {0, 1} }

SessionMsgs ==
  BareMsgs({ SSH_MSG_DISCONNECT, SSH_MSG_GLOBAL_REQUEST,
             SSH_MSG_REQUEST_SUCCESS, SSH_MSG_CHANNEL_OPEN_FAILURE })
    \cup ChannelOpenMsgs \cup ConfirmMsgs \cup AdjustMsgs \cup DataMsgs
    \cup ChannelRequestMsgs \cup ReplyMsgs

(***************************************************************************)
(* The session loop of run                                                 *)
(***************************************************************************)
\* what a handler leaves: the loop's locals, and the operation on the
\* remote window
Keep ==
  [state |-> state, server_channel |-> server_channel,
   server_packet_max |-> server_packet_max, local_window |-> local_window,
   winop |-> "none", winval |-> Wide(0)]

Handled(res, msg, after) ==
  [res |-> res, send |-> msg, after |-> after, err |-> ""]

\* the handler returns Err(Error::Other(err)), or panics
Fails(res, err) == [res |-> res, send |-> NoMsg, after |-> Keep, err |-> err]

\* a handler that takes a confirmation for any channel as the answer to its
\* own CHANNEL_OPEN
confirm_any_channel(m, term) ==
  IF m.short
  THEN Fails("error", "Recieved corrupt channel open failure packet")
  ELSE IF ~term THEN Fails("error", "Could not fetch terminal information")
  ELSE Handled("ok", MsgPtyReq,
         [state |-> "Pty", server_channel |-> m.server_channel,
          server_packet_max |-> m.packet_max, local_window |-> local_window,
          winop |-> "set", winval |-> m.window])

\* a confirmation that leaves the run waiting for the answer to a shell
\* request it has not sent
confirm_enters_shell_phase(m, term) ==
  IF m.short
  THEN Fails("error", "Recieved corrupt channel open failure packet")
  ELSE IF m.chan # 0
  THEN Fails("error", "Recieved confirmation for openning of unrequested channel")
  ELSE IF ~term THEN Fails("error", "Could not fetch terminal information")
  ELSE Handled("ok", MsgPtyReq,
         [state |-> "Shell", server_channel |-> m.server_channel,
          server_packet_max |-> m.packet_max, local_window |-> local_window,
          winop |-> "set", winval |-> m.window])

\* confirm_channel_open and the assignments that follow it in run
confirm_channel_open(m, term) ==
  IF m.short
  THEN Fails("error", "Recieved corrupt channel open failure packet")
  ELSE IF m.chan # 0
  THEN Fails("error", "Recieved confirmation for openning of unrequested channel")
  ELSE IF ~term THEN Fails("error", "Could not fetch terminal information")
  ELSE Handled("ok", MsgPtyReq,
         [state |-> "Pty", server_channel |-> m.server_channel,
          server_packet_max |-> m.packet_max, local_window |-> local_window,
          winop |-> "set", winval |-> m.window])

\* adjust_window and the addition that follows it in run
adjust_window(m) ==
  IF m.short THEN Fails("error", "Recieved corrupt window adjust packet")
  ELSE Handled("ok", NoMsg,
         [Keep EXCEPT !.winop = "add",
                      !.winval = IF m.chan # 0 THEN Wide(0) ELSE m.amount])

\* a handler that also replenishes a window of exactly 100
channel_data_at_most_100(m) ==
  IF m.short THEN Fails("error", "Recieved corrupt channel data packet")
  ELSE IF m.chan # 0 THEN Handled("ok", NoMsg, Keep)
  ELSE IF m.n > local_window \/ local_window - m.n <= 100
  THEN Handled("ok", MsgWindowAdjust(server_channel),
         [Keep EXCEPT !.local_window = local_window + LocalWindow - m.n])
  ELSE Handled("ok", NoMsg, [Keep EXCEPT !.local_window = local_window - m.n])

\* process_channel_data: m.short is a payload shorter than its fixed fields
process_channel_data(m) ==
  IF m.short THEN Fails("error", "Recieved corrupt channel data packet")
  ELSE IF m.chan # 0 THEN Handled("ok", NoMsg, Keep)
  ELSE IF m.n > local_window \/ local_window - m.n < 100
  THEN Handled("ok", MsgWindowAdjust(server_channel),
         [Keep EXCEPT !.local_window = local_window + LocalWindow - m.n])
  ELSE Handled("ok", NoMsg, [Keep EXCEPT !.local_window = local_window - m.n])

\* process_extended_channel_data: the same window accounting after a longer
\* fixed part
process_extended_channel_data(m) ==
  IF m.short
  THEN Fails("error", "Recieved corrupt extended channel data packet")
  ELSE IF m.chan # 0 THEN Handled("ok", NoMsg, Keep)
  ELSE IF m.n > local_window \/ local_window - m.n < 100
  THEN Handled("ok", MsgWindowAdjust(server_channel),
         [Keep EXCEPT !.local_window = local_window + LocalWindow - m.n])
  ELSE Handled("ok", NoMsg, [Keep EXCEPT !.local_window = local_window - m.n])

\* a handler that refuses every request, asked for a reply or not
channel_request_always_refused(m) ==
  IF m.short THEN Fails("panic", "panic")
  ELSE IF m.chan # 0
  THEN Fails("error", "Recieved channel request for invalid channel")
  ELSE Handled("ok", MsgChannelFailure(server_channel), Keep)

process_channel_request(m) ==
  IF m.short THEN Fails("panic", "panic")
  ELSE IF m.chan # 0
  THEN Fails("error", "Recieved channel request for invalid channel")
  ELSE IF m.want THEN Handled("ok", MsgChannelFailure(server_channel), Keep)
  ELSE Handled("ok", NoMsg, Keep)

\* a handler that takes a success for any channel as the answer to its own
\* request
request_success_any_channel(m) ==
  IF m.short THEN Fails("error", "Recieved corrupt channel request failure packet")
  ELSE IF state = "Pty"
  THEN Handled("ok", MsgShell, [Keep EXCEPT !.state = "Shell"])
  ELSE IF state = "Shell"
  THEN Handled("ok", NoMsg, [Keep EXCEPT !.state = "None"])
  ELSE Handled("ok", NoMsg, Keep)

handle_request_success(m) ==
  IF m.short THEN Fails("error", "Recieved corrupt channel request failure packet")
  ELSE IF m.chan # 0 THEN Handled("ok", NoMsg, Keep)
  ELSE IF state = "Pty"
  THEN Handled("ok", MsgShell, [Keep EXCEPT !.state = "Shell"])
  ELSE IF state = "Shell"
  THEN Handled("ok", NoMsg, [Keep EXCEPT !.state = "None"])
  ELSE Handled("ok", NoMsg, Keep)

\* a handler that names one error for both requests
request_fail_one_error(m) ==
  IF m.short THEN Fails("error", "Recieved corrupt channel request failure packet")
  ELSE IF m.chan = 0 /\ state \in { "Pty", "Shell" }
  THEN Fails("error", "Failed to open remote terminal")
  ELSE Handled("ok", NoMsg, Keep)

handle_request_fail(m) ==
  IF m.short THEN Fails("error", "Recieved corrupt channel request failure packet")
  ELSE IF m.chan = 0 /\ state = "Pty"
  THEN Fails("error", "Failed to open remote terminal")
  ELSE IF m.chan = 0 /\ state = "Shell"
  THEN Fails("error", "Failed to open a remote shell")
  ELSE Handled("ok", NoMsg, Keep)

\* a refusal addressed to the channel the server chose for the session
deny_to_session_channel(m) ==
  IF m.short THEN Fails("error", "Recieved corrupt channel open packet")
  ELSE Handled("ok", MsgOpenFailure(server_channel), Keep)

deny_channel_open(m) ==
  IF m.short THEN Fails("error", "Recieved corrupt channel open packet")
  ELSE Handled("ok", MsgOpenFailure(m.sender), Keep)

\* a handler that asks again for a channel when the first was refused
open_fail_retries(m) ==
  IF m.short THEN Fails("error", "Recieved corrupt channel open failure packet")
  ELSE Handled("ok", MsgChannelOpen, Keep)

handle_channel_open_fail(m) ==
  IF m.short THEN Fails("error", "Recieved corrupt channel open failure packet")
  ELSE Handled("ok", NoMsg, Keep)

process_global_request(m) ==
  IF m.short THEN Fails("panic", "panic") ELSE Handled("ok", NoMsg, Keep)

\* process_channel_data and process_extended_channel_data write the data
\* to the terminal before they look at the window
DataPrinted(m) ==
  /\ m.typ \in { SSH_MSG_CHANNEL_DATA, SSH_MSG_CHANNEL_EXTENDED_DATA }
  /\ ~m.short
  /\ m.chan = 0

\* the match of run on the packet type
Dispatch(m, term) ==
  CASE m.typ = SSH_MSG_DISCONNECT ->
         Fails("error", "Host sent ssh disconnect message")
    [] m.typ = SSH_MSG_GLOBAL_REQUEST -> process_global_request(m)
    [] m.typ = SSH_MSG_CHANNEL_OPEN -> deny_channel_open(m)
    [] m.typ = SSH_MSG_CHANNEL_OPEN_CONFIRMATION -> confirm_channel_open(m, term)
    [] m.typ = SSH_MSG_CHANNEL_OPEN_FAILURE -> handle_channel_open_fail(m)
    [] m.typ = SSH_MSG_CHANNEL_WINDOW_ADJUST -> adjust_window(m)
    [] m.typ = SSH_MSG_CHANNEL_DATA -> process_channel_data(m)
    [] m.typ = SSH_MSG_CHANNEL_EXTENDED_DATA ->
         process_extended_channel_data(m)
    [] m.typ = SSH_MSG_CHANNEL_REQUEST -> process_channel_request(m)
    [] m.typ = SSH_MSG_CHANNEL_SUCCESS -> handle_request_success(m)
    [] m.typ = SSH_MSG_CHANNEL_FAILURE -> handle_request_fail(m)
    [] OTHER -> Handled("ok", NoMsg, Keep)

\* the shell request was granted: both units of work run from here on
ShellRunning(before, after) == before = "Shell" /\ after = "None"

\* writer::spawn refuses a maximum packet size below 16
SpawnRefused(packet_max) == packet_max < 16

\* the main thread is still running (an Err of run, or a panic, ends the process)
Alive == pc \notin { "error", "panic" }

\* the Mutex around the Encrypter can be taken
EncGuardIgnored == TRUE
EncGuardFree == encGuard = "free"

\* the Mutex around the remote window can be taken
WinGuardIgnored == TRUE
WinGuardFree == winGuard = "free"

\* one turn of the loop: stream.read(Some(&mut decrypter)) and the handler
\* up to its first send or lock
SessReadUpTo(limit) ==
  /\ pc = "sess_read"
  /\ sessMsgs < limit
  /\ \E r \in EncRecords(SessionMsgs), term \in BOOLEAN :
       /\ r.msg.typ # SSH_MSG_CHANNEL_OPEN_CONFIRMATION => term
       /\ LET ok == RecvStatus(r, TRUE) = "ok"
              h == IF ok THEN Dispatch(r.msg, term)
                   ELSE Fails("error", ReadErr(r, TRUE))
              now == h.res = "ok" /\ h.send = NoMsg /\ h.after.winop = "none"
              start == now /\ ShellRunning(state, h.after.state) /\ ~spawned
          IN
          /\ RecvGhost(r, TRUE,
               IF start /\ SpawnRefused(server_packet_max)
               THEN "Server maximum packet size is too small" ELSE h.err)
          /\ RecvCounters(r, TRUE)
          /\ accepted' = AcceptedNext(r, TRUE)
          /\ dataAccepted' = IF ok /\ DataPrinted(r.msg)
                             THEN dataAccepted + r.msg.n ELSE dataAccepted
          /\ sessMsgs' = sessMsgs + 1
          /\ pc' = IF h.res # "ok" THEN h.res
                   ELSE IF start /\ SpawnRefused(server_packet_max) THEN "error"
                   ELSE IF h.send # NoMsg THEN "sess_send"
                   ELSE IF h.after.winop # "none" THEN "sess_finish"
                   ELSE "sess_read"
          /\ snd' = IF h.res = "ok" /\ h.send # NoMsg
                    THEN [snd EXCEPT !["reader"] =
                            [stage |-> "want", msg |-> h.send, seq |-> 0, iv |-> 0]]
                    ELSE snd
          /\ rafter' = IF h.res = "ok" /\ ~now THEN h.after ELSE rafter
          /\ IF now
             THEN /\ state' = h.after.state
                  /\ local_window' = h.after.local_window
             ELSE UNCHANGED << state, local_window >>
          /\ IF start /\ ~SpawnRefused(server_packet_max)
             THEN /\ spawned' = TRUE
                  /\ wpc' = "w_poll"
                  /\ wchannel' = server_channel
                  /\ raw_mode' = TRUE
             ELSE UNCHANGED << spawned, wpc, wchannel, raw_mode >>
  /\ UNCHANGED << sendCtr, keyVars, kexVars, wireVars, authVars,
                  server_channel, server_packet_max, winVars, wdata, wesc,
                  wseen, wkeys, stop_flag, encGuard >>
  /\ UNCHANGED unitVars

\* the loop of run reads at most MaxSessMsgs records
SessRead == SessReadUpTo(MaxSessMsgs)

\* the handler's send has returned: its results are stored, and the remote
\* window is set or increased under its Mutex
SessFinish ==
  /\ pc = "sess_finish"
  /\ rafter.winop # "none" => WinGuardFree
  /\ state' = rafter.state
  /\ server_channel' = rafter.server_channel
  /\ server_packet_max' = rafter.server_packet_max
  /\ local_window' = rafter.local_window
  /\ remote_window' = CASE rafter.winop = "set" -> rafter.winval
                        [] rafter.winop = "add" ->
                             window_add(remote_window, rafter.winval)
                        [] OTHER -> remote_window
  /\ rafter' = NoAfter
  /\ pc' = "sess_read"
  /\ UNCHANGED << sendCtr, recvCtr, keyVars, kexVars, wireVars, recvVars,
                  accepted, dataAccepted, authVars, sessMsgs, winGuard,
                  decrements, writerVars, lockVars >>
  /\ UNCHANGED unitVars

(***************************************************************************)
(* A send under the Encrypter's Mutex, by either thread                    *)
(***************************************************************************)
\* encrypter.lock(), then in SshStream::send the calls of Encrypter::mac and
\* Encrypter::encrypt
SendBegin(t) ==
  /\ Alive
  /\ snd[t].stage = "want"
  /\ EncGuardFree
  /\ encGuard' = t
  /\ snd' = [snd EXCEPT ![t].stage = "encrypted", ![t].seq = packet_num_send,
                        ![t].iv = iv_encrypt]
  /\ packet_num_send' = MacNext(packet_num_send)
  /\ iv_encrypt' = iv_encrypt + SendBlocks(snd[t].msg.plen)
  /\ UNCHANGED << pc, recvCtr, keyVars, kexVars, wireVars, recvVars, accepted,
                  dataAccepted, authVars, chanVars, winVars, writerVars >>
  /\ UNCHANGED unitVars

\* the two write_all calls; send returns and the guard is dropped.  A
\* handler of the session loop that touches no Mutex stores its results
SendWrite(t) ==
  /\ Alive
  /\ snd[t].stage = "encrypted"
  /\ WireWrite(snd[t].msg, encOn, snd[t].seq, snd[t].iv)
  /\ snd' = [snd EXCEPT ![t] = Idle]
  /\ encGuard' = "free"
  /\ IF t = "reader"
     THEN /\ IF rafter.winop = "none"
             THEN /\ pc' = "sess_read"
                  /\ state' = rafter.state
                  /\ local_window' = rafter.local_window
                  /\ rafter' = NoAfter
             ELSE /\ pc' = "sess_finish"
                  /\ UNCHANGED << state, local_window, rafter >>
          /\ UNCHANGED << wpc, wdata, raw_mode >>
     ELSE /\ pc' = pc
          /\ wdata' = IF snd[t].msg.kind = "data" THEN Tail(wdata) ELSE wdata
          /\ wpc' = IF snd[t].msg.kind = "data" /\ Tail(wdata) # <<>>
                    THEN "w_wait"
                    ELSE IF snd[t].msg.kind = "data" /\ wesc THEN "w_done"
                    ELSE "w_poll"
          /\ raw_mode' = (raw_mode /\ wpc' # "w_done")
          /\ UNCHANGED << state, local_window, rafter >>
  /\ UNCHANGED << sendCtr, recvCtr, keyVars, kexVars, recvVars, accepted,
                  dataAccepted, authVars, server_channel, server_packet_max,
                  sessMsgs, winVars, spawned, wchannel, wesc, wseen, wkeys,
                  stop_flag >>
  /\ UNCHANGED unitVars

(***************************************************************************)
(* The writer thread                                                       *)
(***************************************************************************)
\* the sizes a resize event reports
TerminalSizes == { <<80, 24>>, <<132, 43>> }

\* the octets writer::spawn sends for a key, and whether the key ends the loop
KeyEvents ==
  { [kind |-> "key", release |-> r, data |-> d, esc |-> d = <<27>>,
     width |-> 0, height |-> 0] :
      r \in BOOLEAN, d \in { <<97>>, <<195, 169>>, <<27>>, <<>> } }
    \cup { [kind |-> "resize", release |-> FALSE, data |-> <<>>,
            esc |-> FALSE, width |-> sz[1], height |-> sz[2]] :
              sz \in TerminalSizes }
    \cup { [kind |-> "other", release |-> FALSE, data |-> <<>>,
            esc |-> FALSE, width |-> 0, height |-> 0] }

\* poll and read return an event
WPoll ==
  /\ Alive
  /\ wpc = "w_poll"
  /\ ~stop_flag
  /\ wkeys < MaxKeys
  /\ \E ev \in KeyEvents :
       /\ IF ev.kind = "key" /\ ~ev.release /\ ev.data # <<>>
          THEN /\ wkeys' = wkeys + 1
               /\ wdata' = ev.data
               /\ wesc' = ev.esc
               /\ wpc' = "w_wait"
               /\ snd' = snd
          ELSE IF ev.kind = "resize"
          THEN /\ wkeys' = wkeys + 1
               /\ snd' = [snd EXCEPT !["writer"] =
                            [stage |-> "want",
                             msg |-> MsgWindowChange(wchannel, ev.width,
                                                     ev.height),
                             seq |-> 0, iv |-> 0]]
               /\ wpc' = "w_send"
               /\ UNCHANGED << wdata, wesc >>
          ELSE UNCHANGED << wkeys, wdata, wesc, wpc, snd >>
  /\ UNCHANGED << pc, sendCtr, recvCtr, keyVars, kexVars, wireVars, recvVars,
                  accepted, dataAccepted, authVars, chanVars, winVars, spawned,
                  wchannel, wseen, stop_flag, raw_mode, encGuard >>
  /\ UNCHANGED unitVars

\* wait_for_window: the window is locked and read; a zero drops the guard
\* and the loop turns again
WWindowCheck ==
  /\ Alive
  /\ wpc = "w_wait"
  /\ WinGuardFree
  /\ wseen' = remote_window
  /\ IF remote_window # Wide(0)
     THEN /\ winGuard' = "writer"
          /\ wpc' = "w_dec"
     ELSE UNCHANGED << winGuard, wpc >>
  /\ UNCHANGED << pc, sendCtr, recvCtr, keyVars, kexVars, wireVars, recvVars,
                  accepted, dataAccepted, authVars, chanVars, remote_window,
                  decrements, spawned, wchannel, wdata, wesc, wkeys,
                  stop_flag, raw_mode, lockVars >>
  /\ UNCHANGED unitVars

\* wait_for_window: *window -= 1 and the return, which drops the guard; the
\* CHANNEL_DATA packet for the octet is then assembled
WWindowDec ==
  /\ Alive
  /\ wpc = "w_dec"
  /\ remote_window' = WideDec(remote_window)
  /\ decrements' = decrements + 1
  /\ winGuard' = "free"
  /\ snd' = [snd EXCEPT !["writer"] =
               [stage |-> "want", msg |-> MsgData(wchannel, Head(wdata)),
                seq |-> 0, iv |-> 0]]
  /\ wpc' = "w_send"
  /\ UNCHANGED << pc, sendCtr, recvCtr, keyVars, kexVars, wireVars, recvVars,
                  accepted, dataAccepted, authVars, chanVars, spawned,
                  wchannel, wdata, wesc, wseen, wkeys, stop_flag, raw_mode,
                  encGuard >>
  /\ UNCHANGED unitVars

\* something outside the writer stores true in the stop flag it was given
StopRequested ==
  /\ Alive
  /\ spawned
  /\ ~stop_flag
  /\ stop_flag' = TRUE
  /\ UNCHANGED << pc, sendCtr, recvCtr, keyVars, kexVars, wireVars, recvVars,
                  accepted, dataAccepted, authVars, chanVars, winVars, spawned,
                  wpc, wchannel, wdata, wesc, wseen, wkeys, raw_mode,
                  lockVars >>
  /\ UNCHANGED unitVars

\* the loop condition finds the flag set: disable_raw_mode and the thread
\* ends
WStop ==
  /\ Alive
  /\ wpc = "w_poll"
  /\ stop_flag
  /\ wpc' = "w_done"
  /\ raw_mode' = FALSE
  /\ UNCHANGED << pc, sendCtr, recvCtr, keyVars, kexVars, wireVars, recvVars,
                  accepted, dataAccepted, authVars, chanVars, winVars, spawned,
                  wchannel, wdata, wesc, wseen, wkeys, stop_flag, lockVars >>
  /\ UNCHANGED unitVars

SessNext ==
  \/ SessRead
  \/ SessFinish

SendNext ==
  \/ \E t \in Threads : SendBegin(t)
  \/ \E t \in Threads : SendWrite(t)

WriterNext ==
  \/ WPoll
  \/ WWindowCheck
  \/ WWindowDec

AuthNext ==
  \/ SendServiceRequest
  \/ ReadServiceAccept
  \/ SendAuthNone
  \/ AuthLoop
  \/ OpenChannel

KexNext ==
  \/ SendKexInit
  \/ ReadKexInit
  \/ SendEcdhInit
  \/ ReadEcdhReply
  \/ SendNewKeys
  \/ ReadNewKeys

Next == KexNext \/ AuthNext \/ SessNext \/ SendNext \/ WriterNext

NextRekex == KexNext \/ Reexchange

Spec == Init /\ [][Next]_vars
SpecRekex == Init /\ [][NextRekex]_vars

(***************************************************************************)
(* The shell is running: the two threads, and a stop flag that is set      *)
(***************************************************************************)
\* the state in which the shell request has just been granted and the
\* writer started, after one key exchange and one password, for each window
\* the server may have confirmed
Running ==
  /\ pc = "sess_read"
  /\ encOn = 1
  /\ packet_num_send = 9
  /\ packet_num_recieve = 9
  /\ iv_encrypt = 22
  /\ iv_decrypt = 12
  /\ session_id = ExchangeHash(1)
  /\ keys = [l \in Letters |->
               generate_key(<<"K", 1>>, ExchangeHash(1), l, ExchangeHash(1))]
  /\ kexNo = 1
  /\ old = FALSE
  /\ num_read = 3
  /\ exchange_hash = ExchangeHash(1)
  /\ skipped = 0
  /\ reply = [typ |-> SSH_MSG_KEX_ECDH_REPLY, short |-> FALSE,
              pointOk |-> TRUE, keyType |-> "ssh-rsa", rsaOk |-> TRUE,
              sigType |-> "rsa-sha2-512", sigOver |-> ExchangeHash(1)]
  /\ sent = [k \in SentKinds |->
               IF k \in { "data", "window_adjust", "channel_failure",
                          "open_failure", "window-change" } THEN 0 ELSE 1]
  /\ wireLast = [kind |-> "shell", typ |-> SSH_MSG_CHANNEL_REQUEST,
                 epoch |-> 1, seq |-> 8, iv |-> 20, idx |-> 5, off |-> 20,
                 arg |-> <<>>]
  /\ wireEnc = 6
  /\ wireBlocks = 22
  /\ actSend = 3
  /\ actRecv = 3
  /\ clearSent = 3
  /\ clearRecvd = 3
  /\ accepted = 6
  /\ dataAccepted = 0
  /\ lastRead = [cipher |-> TRUE, keyed |-> TRUE, status |-> "ok",
                 tag |-> [seq |-> 8, good |-> TRUE], seq |-> 8, err |-> ""]
  /\ attempt_counter = 1
  /\ authNoise = 0
  /\ state = "None"
  /\ server_channel = 3
  /\ server_packet_max = 32768
  /\ local_window = LocalWindow
  /\ remote_window \in { Wide(n) : n \in 0..MaxWin }
  /\ winGuard = "free"
  /\ encGuard = "free"
  /\ snd = [t \in Threads |-> Idle]
  /\ rafter = NoAfter
  /\ sessMsgs = 3
  /\ spawned = TRUE
  /\ wpc = "w_poll"
  /\ wchannel = 3
  /\ wdata = <<>>
  /\ wesc = FALSE
  /\ wseen = Wide(0)
  /\ wkeys = 0
  /\ stop_flag = FALSE
  /\ raw_mode = TRUE
  /\ decrements = 0
  /\ call = NoCall
  /\ ret = Pending

NextStop == SessNext \/ SendNext \/ WriterNext \/ StopRequested \/ WStop

\* the operating system runs each thread that can take a step, and a Mutex
\* that is free is handed to a thread waiting for it; neither the user nor
\* the server owes the client an event
Scheduled ==
  /\ WF_vars(WStop)
  /\ WF_vars(WWindowCheck)
  /\ WF_vars(WWindowDec)
  /\ WF_vars(SessFinish)
  /\ \A t \in Threads : WF_vars(SendBegin(t)) /\ WF_vars(SendWrite(t))

SpecStop == Running /\ [][NextStop]_vars /\ Scheduled

\* the two Mutexes are handed over fairly: a writer that asks for the
\* window's or the Encrypter's guard again and again gets it
FairGuards ==
  /\ SF_vars(WWindowCheck)
  /\ SF_vars(SendBegin("writer"))

\* the shell is running and the server has granted no window; the session
\* loop reads up to MaxWindowMsgs records, two of them from here on
MaxWindowMsgs == 5
RunningDry == Running /\ remote_window = Wide(0)

NextWindow ==
  \/ SessReadUpTo(MaxWindowMsgs)
  \/ SessFinish
  \/ SendNext
  \/ WriterNext

SpecWindow == RunningDry /\ [][NextWindow]_vars /\ Scheduled /\ FairGuards

(***************************************************************************)
(* negotiate_alg called on its own                                         *)
(***************************************************************************)
MaxNames == 3

AlgNames == { "aes256-ctr", "aes128-ctr", "chacha20-poly1305@openssh.com" }

\* the name lists of at most MaxNames names
NameLists == UNION { [1..n -> AlgNames] : n \in 0..MaxNames }

NegotiateCalls ==
  { [fn |-> "negotiate_alg", client |-> c, server |-> sv] :
      c \in NameLists, sv \in NameLists }

InitNegotiate ==
  /\ Connected
  /\ call \in NegotiateCalls
  /\ ret = Pending

\* Ok(alg), or Err(Error::Other(..))
CallNegotiate ==
  /\ call.fn = "negotiate_alg"
  /\ ~ret.done
  /\ LET alg == negotiate_alg(call.client, call.server) IN
     ret' = [done |-> TRUE, value |-> alg,
             err |-> IF alg = NoAlg
                     THEN "Could not find compatible algorithms" ELSE ""]
  /\ UNCHANGED << runVars, call >>

SpecNegotiate == InitNegotiate /\ [][CallNegotiate]_vars

(***************************************************************************)
(* The framing arithmetic of SshStream::send on its own                    *)
(***************************************************************************)
MaxPayload == 64

\* payload lengths, with and without an Encrypter
PaddingCalls ==
  { [fn |-> "padding", payload_length |-> n, on |-> o] :
      n \in 1..MaxPayload, o \in BOOLEAN }

InitPadding ==
  /\ Connected
  /\ call \in PaddingCalls
  /\ ret = Pending

\* "Calculate block size" to "Calculate the total packet length"
CallPadding ==
  /\ call.fn = "padding"
  /\ ~ret.done
  /\ ret' = [done |-> TRUE,
             padding_length |->
               padding_length(call.payload_length, BlockSize(call.on)),
             packet_length |->
               packet_length(call.payload_length, BlockSize(call.on))]
  /\ UNCHANGED << runVars, call >>

SpecPadding == InitPadding /\ [][CallPadding]_vars

(***************************************************************************)
(* The checks SshStream::read makes on a record, on their own              *)
(***************************************************************************)
\* packet_length fields around the two limits and through several blocks
LengthFields == (0..40) \cup { 34988, 34992, 34995, 34996, 34997, 35000 }

ReadCalls ==
  { [fn |-> "read", len |-> n, pad |-> q, on |-> o] :
      n \in LengthFields, q \in {3, 4}, o \in BOOLEAN }

InitRead ==
  /\ Connected
  /\ call \in ReadCalls
  /\ ret = Pending

\* read up to the MAC, on a stream that holds the octets it asks for
CallRead ==
  /\ call.fn = "read"
  /\ ~ret.done
  /\ ret' = [done |-> TRUE, status |-> ReadStatus(call, call.on)]
  /\ UNCHANGED << runVars, call >>

SpecRead == InitRead /\ [][CallRead]_vars

(***************************************************************************)
(* SshStream::send into SshStream::read, octet by octet                    *)
(***************************************************************************)
\* A Vec<u8> is held as its runs: << <<v1, n1>>, <<v2, n2>>, .. >> is n1
\* octets v1, then n2 octets v2, ..; every n is positive and neighbours
\* differ, so equal vectors are equal values.
RECURSIVE OctLen(_)
OctLen(v) == IF v = <<>> THEN 0 ELSE Head(v)[2] + OctLen(Tail(v))

\* Vec::extend
OctCat(v, w) ==
  IF v = <<>> THEN w
  ELSE IF w = <<>> THEN v
  ELSE IF v[Len(v)][1] = w[1][1]
  THEN SubSeq(v, 1, Len(v) - 1)
         \o << <<w[1][1], v[Len(v)][2] + w[1][2]>> >> \o Tail(w)
  ELSE v \o w

\* vec![value; count]
OctFill(value, count) == IF count <= 0 THEN <<>> ELSE << <<value, count>> >>

\* v[i], counted from 0
RECURSIVE OctAt(_, _)
OctAt(v, i) ==
  IF i < Head(v)[2] THEN Head(v)[1] ELSE OctAt(Tail(v), i - Head(v)[2])

\* &v[from..to]
RECURSIVE OctSlice(_, _, _)
OctSlice(v, from, to) ==
  IF v = <<>> \/ to <= from THEN <<>>
  ELSE LET n == Head(v)[2] IN
       IF from >= n THEN OctSlice(Tail(v), from - n, to - n)
       ELSE IF to <= n THEN OctFill(Head(v)[1], to - from)
       ELSE OctCat(OctFill(Head(v)[1], n - from),
                   OctSlice(Tail(v), 0, to - n))

\* u32::to_be_bytes and u32::from_be_bytes (below 2^31)
to_be_bytes(n) ==
  OctCat(OctCat(OctFill(n \div (256 * Limb), 1),
                OctFill((n \div Limb) % 256, 1)),
         OctCat(OctFill((n \div 256) % 256, 1), OctFill(n % 256, 1)))

from_be_bytes(v) ==
  ((OctAt(v, 0) * 256 + OctAt(v, 1)) * 256 + OctAt(v, 2)) * 256 + OctAt(v, 3)

\* hmac_sha256_mac: the tag is a function of the key, the counter and the
\* message
hmac_sha256_mac(key, seq, message) ==
  [key |-> key, seq |-> seq, over |-> message]

\* aes256_ctr_encrypt: block j of the plaintext is combined with the
\* keystream block of (key, iv + j)
aes256_ctr_encrypt(key, iv, plaintext) ==
  [key |-> key, iv |-> iv, plain |-> plaintext]

\* aes256_ctr_decrypt of the octets from..to of a ciphertext: the same
\* keystream gives the plaintext back, any other gives other octets
aes256_ctr_decrypt(key, iv, c, from, to) ==
  IF key = c.key /\ iv = c.iv + from \div 16
  THEN OctSlice(c.plain, from, to)
  ELSE OctFill(255, to - from)

\* send with Some(enc): the record on the stream and the Encrypter after it
send(payload, enc) ==
  LET payload_length == OctLen(payload)
      pad == padding_length(payload_length, 16)
      len == payload_length + pad + 1
      packet == OctCat(OctCat(to_be_bytes(len), OctFill(pad, 1)),
                       OctCat(payload, OctFill(0, pad)))
  IN  [packet_length |-> len,
       mac |-> hmac_sha256_mac(enc.mac_key, enc.packet_num, packet),
       cipher |-> aes256_ctr_encrypt(enc.key, enc.iv, packet),
       enc |-> [enc EXCEPT !.packet_num = MacNext(enc.packet_num),
                           !.iv = enc.iv + OctLen(packet) \div 16]]

\* a read that takes everything after the padding_length octet as payload
payload_with_padding(packet, len, pad) == OctSlice(packet, 5, OctLen(packet))

\* read: "let payload = &packet[5..(6 + payload_length)]"
payload_of(packet, len, pad) == OctSlice(packet, 5, 6 + (len - pad - 2))

\* read with Some(enc) on the stream that holds record w
read(w, enc) ==
  LET first == aes256_ctr_decrypt(enc.key, enc.iv, w.cipher, 0, 16)
      len == from_be_bytes(first)
      frame == [len |-> len, pad |-> 4]
      early == ReadStatus(frame, TRUE)
      rest == aes256_ctr_decrypt(enc.key, enc.iv + 1, w.cipher, 16, len + 4)
      packet == OctCat(first, rest)
      pad == OctAt(packet, 4)
      late == ReadStatus([len |-> len, pad |-> pad], TRUE)
      blocks == IF early = "framed" THEN (len + 4) \div 16 ELSE 1
      after == [enc EXCEPT !.iv = enc.iv + blocks]
      verified == [after EXCEPT !.packet_num = VerifyNext(enc.packet_num)]
      payload == payload_of(packet, len, pad)
  IN  IF early # "framed"
      THEN [status |-> early, enc |-> after, typ |-> 0, payload |-> <<>>]
      ELSE IF late # "framed"
      THEN [status |-> late, enc |-> after, typ |-> 0, payload |-> <<>>]
      ELSE IF w.mac # hmac_sha256_mac(enc.mac_key, enc.packet_num, packet)
      THEN [status |-> "bad_mac", enc |-> verified, typ |-> 0,
            payload |-> <<>>]
      ELSE [status |-> "ok", enc |-> verified, typ |-> OctAt(payload, 0),
            payload |-> OctSlice(payload, 1, OctLen(payload))]

\* message bodies: none, one octet, zeros (as the padding is), mixed, and
\* runs that end short of, on and past a block and the largest record read
\* accepts
Bodies ==
  { <<>>, OctFill(97, 1), OctFill(0, 1), OctFill(0, 3),
    OctCat(OctFill(97, 1), OctFill(0, 2)),
    OctCat(OctFill(0, 4), OctFill(4, 1)) }
    \cup { OctFill(120, n) : n \in { 9, 10, 11, 25, 26, 34981, 34982, 34983 } }

\* the state the sender starts from; the receiver's is the same for that
\* direction
CipherStates ==
  { [key |-> "C", mac_key |-> "E", packet_num |-> n, iv |-> i] :
      n \in {0, 3, 7}, i \in {0, 5} }

RoundTripCalls ==
  { [fn |-> "roundtrip", typ |-> t, body |-> b, enc |-> e] :
      t \in { SSH_MSG_DISCONNECT, SSH_MSG_CHANNEL_DATA }, b \in Bodies,
      e \in CipherStates }

InitRoundTrip ==
  /\ Connected
  /\ call \in RoundTripCalls
  /\ ret = Pending

CallSend ==
  /\ call.fn = "roundtrip"
  /\ ret = Pending
  /\ ret' = [done |-> FALSE,
             wire |-> send(OctCat(OctFill(call.typ, 1), call.body), call.enc)]
  /\ UNCHANGED << runVars, call >>

CallReceive ==
  /\ call.fn = "roundtrip"
  /\ ~ret.done
  /\ ret # Pending
  /\ ret' = [done |-> TRUE, wire |-> ret.wire, out |-> read(ret.wire, call.enc)]
  /\ UNCHANGED << runVars, call >>

NextRoundTrip == CallSend \/ CallReceive

SpecRoundTrip == InitRoundTrip /\ [][NextRoundTrip]_vars

(***************************************************************************)
(* exchange_versions, the first call of run                                *)
(***************************************************************************)
\* the octets of a literal, one after another
RECURSIVE Octets(_)
Octets(s) ==
  IF s = <<>> THEN <<>> ELSE OctCat(OctFill(Head(s), 1), Octets(Tail(s)))

\* str::starts_with and str::ends_with
starts_with(v, p) ==
  OctLen(v) >= OctLen(p) /\ OctSlice(v, 0, OctLen(p)) = p

ends_with(v, p) ==
  OctLen(v) >= OctLen(p) /\ OctSlice(v, OctLen(v) - OctLen(p), OctLen(v)) = p

\* b"SSH-2.0-TSSH_1.0"
CLIENT_VERSION ==
  Octets(<< 83, 83, 72, 45, 50, 46, 48, 45, 84, 83, 83, 72, 95, 49, 46, 48 >>)

\* "SSH-", "SSH-2." and "\r\n"
SshDash == Octets(<< 83, 83, 72, 45 >>)
SshTwo == Octets(<< 83, 83, 72, 45, 50, 46 >>)
CrLf == Octets(<< 13, 10 >>)

\* SshStream::append_string: the length as a u32, then the octets
append_string(payload, string) ==
  OctCat(payload, OctCat(to_be_bytes(OctLen(string)), string))

\* SshStream::extract_string: "&start[0..4]" and
\* "&start[(string_length + 4)..]" panic when the slice has fewer octets
extract_string(start) ==
  IF OctLen(start) < 4 THEN [outcome |-> "panic"]
  ELSE LET string_length == from_be_bytes(OctSlice(start, 0, 4)) IN
       IF string_length + 4 > OctLen(start) THEN [outcome |-> "panic"]
       ELSE [outcome |-> "ok",
             value |-> OctSlice(start, 4, string_length + 4),
             rest |-> OctSlice(start, string_length + 4, OctLen(start))]

\* the checks that take any terminator for the end of the line
version_checks_any_end(host_version) ==
  IF OctLen(host_version) > 255
  THEN "Recieved invalid version info: Host did not follow SSH version exchange protocol"
  ELSE IF ~starts_with(host_version, SshTwo)
  THEN "Incompatible version: Host is not using SSH-2.0 but TSSH is"
  ELSE ""

\* exchange_versions on the line that starts with "SSH-": the Err it returns
\* ("" when it goes on); num_read is the length of the line
version_checks(host_version) ==
  IF ~ends_with(host_version, CrLf) \/ OctLen(host_version) > 255
  THEN "Recieved invalid version info: Host did not follow SSH version exchange protocol"
  ELSE IF ~starts_with(host_version, SshTwo)
  THEN "Incompatible version: Host is not using SSH-2.0 but TSSH is"
  ELSE ""

\* exchange_versions on a stream that holds these lines and then ends;
\* read_line returns a line with its "\n", the last one as far as it goes,
\* and 0 at the end of the stream
RECURSIVE exchange_versions(_)
exchange_versions(lines) ==
  IF lines = <<>>
  THEN [ok |-> FALSE, value |-> <<>>,
        err |-> "Did not recieve version info from host"]
  ELSE LET host_version == Head(lines) IN
       IF ~starts_with(host_version, SshDash)
       THEN exchange_versions(Tail(lines))
       ELSE IF version_checks(host_version) # ""
       THEN [ok |-> FALSE, value |-> <<>>,
             err |-> version_checks(host_version)]
       ELSE [ok |-> TRUE,
             value |-> append_string(
                         append_string(<<>>, CLIENT_VERSION),
                         OctSlice(host_version, 0, OctLen(host_version) - 2)),
             err |-> ""]

\* how a line of the server begins: "SSH-2.0-", "SSH-1.5-", "SSH-",
\* "ssh-2.0-" and "W"
LineHeads ==
  { Octets(<< 83, 83, 72, 45, 50, 46, 48, 45 >>),
    Octets(<< 83, 83, 72, 45, 49, 46, 53, 45 >>),
    SshDash,
    Octets(<< 115, 115, 104, 45, 50, 46, 48, 45 >>),
    Octets(<< 87 >>) }

\* octets "x" that follow: with a head of 8 octets and CR LF, 245 of them
\* make a line of 255 octets and 246 one of 256
MaxFill == 246
LineFills == { 0, 3, MaxFill - 1, MaxFill }

\* how a line ends: CR LF, LF alone, or where the stream ends
LineEnds == { CrLf, Octets(<< 10 >>), <<>> }

Lines ==
  { OctCat(OctCat(h, OctFill(120, n)), e) :
      h \in LineHeads, n \in LineFills, e \in LineEnds }

\* at most MaxLines lines; only the last can lack its "\n"
MaxLines == 2
Streams ==
  { s \in UNION { [1..n -> Lines] : n \in 0..MaxLines } :
      \A i \in 1..(Len(s) - 1) : ends_with(s[i], Octets(<< 10 >>)) }

VersionCalls == { [fn |-> "exchange_versions", stream |-> s] : s \in Streams }

\* run after TcpStream::connect
InitVersions ==
  /\ pc = "exchange_versions"
  /\ Opened
  /\ call \in VersionCalls
  /\ ret = Pending

\* "let hash_prefix = exchange_versions(&mut stream)?;"
ExchangeVersions ==
  /\ pc = "exchange_versions"
  /\ ~ret.done
  /\ LET r == exchange_versions(call.stream) IN
     /\ ret' = [done |-> TRUE, ok |-> r.ok, value |-> r.value, err |-> r.err]
     /\ pc' = IF r.ok THEN "kexinit_send" ELSE "error"
     /\ lastRead' = [lastRead EXCEPT !.err = r.err]
  /\ UNCHANGED << sendCtr, recvCtr, keyVars, kexVars, wireVars, clearRecvd,
                  accepted, dataAccepted, restVars, call >>

NextVersions == ExchangeVersions \/ SendKexInit

SpecVersions == InitVersions /\ [][NextVersions]_vars

(***************************************************************************)
(* SshStream::append_mpint into SshStream::extract_mpint_unsigned          *)
(***************************************************************************)
\* BigUint::from_bytes_be: a BigUint holds its digits without leading zeros,
\* so two of them are equal exactly when they hold the same integer
from_bytes_be(v) == IF v # <<>> /\ Head(v)[1] = 0 THEN Tail(v) ELSE v

\* "for (i, n) in num.iter().enumerate() { if *n != 0 { start = Some(i);
\* break; } }": the first place from i on that holds another octet than
\* skip, Len(num) + 1 for None (places counted from 1)
RECURSIVE first_other(_, _, _)
first_other(num, skip, i) ==
  IF i > Len(num) THEN Len(num) + 1
  ELSE IF num[i] # skip THEN i
  ELSE first_other(num, skip, i + 1)

\* the same loop without the break: the last such place, 0 for None
RECURSIVE last_other(_, _, _)
last_other(num, skip, i) ==
  IF i = 0 THEN 0
  ELSE IF num[i] # skip THEN i
  ELSE last_other(num, skip, i - 1)

\* an append_mpint that never adds the sign octet
append_mpint_unsigned(payload, num, is_pos) ==
  LET i == first_other(num, 0, 1) IN
  IF i > Len(num) THEN OctCat(payload, OctFill(0, 4))
  ELSE LET mpint == Octets(SubSeq(num, i, Len(num))) IN
       OctCat(payload, OctCat(to_be_bytes(OctLen(mpint)), mpint))

\* SshStream::append_mpint: num is a magnitude, most significant octet first
append_mpint(payload, num, is_pos) ==
  IF Len(num) = 0 THEN OctCat(payload, OctFill(0, 4))
  ELSE IF is_pos
  THEN LET i == first_other(num, 0, 1) IN
       IF i > Len(num) THEN OctCat(payload, OctFill(0, 4))
       ELSE LET mpint == OctCat(IF num[i] >= 128 THEN OctFill(0, 1) ELSE <<>>,
                                Octets(SubSeq(num, i, Len(num))))
            IN  OctCat(payload, OctCat(to_be_bytes(OctLen(mpint)), mpint))
  ELSE LET i == last_other(num, 255, Len(num)) IN
       IF i = 0
       THEN OctCat(payload, Octets(<< 0, 0, 0, 1, 255 >>))
       ELSE LET mpint == OctCat(IF num[i] < 128 THEN OctFill(255, 1) ELSE <<>>,
                                Octets(SubSeq(num, i, Len(num))))
            IN  OctCat(payload, OctCat(to_be_bytes(OctLen(mpint)), mpint))

\* SshStream::extract_mpint_unsigned: the slices panic as in extract_string
extract_mpint_unsigned(start) ==
  IF OctLen(start) < 4 THEN [outcome |-> "panic"]
  ELSE LET num_length == from_be_bytes(OctSlice(start, 0, 4)) IN
       IF num_length + 4 > OctLen(start) THEN [outcome |-> "panic"]
       ELSE [outcome |-> "ok",
             value |-> from_bytes_be(OctSlice(start, 4, num_length + 4)),
             rest |-> OctSlice(start, num_length + 4, OctLen(start))]

\* magnitudes of at most MaxMagnitude octets; the octets are the ends and
\* the middle of both halves of the range
MaxMagnitude == 3
MagnitudeOctets == { 0, 1, 127, 128, 255 }
Magnitudes == UNION { [1..n -> MagnitudeOctets] : n \in 0..MaxMagnitude }

MpintCalls ==
  { [fn |-> "append_mpint", num |-> m, is_pos |-> p] :
      m \in Magnitudes, p \in BOOLEAN }

InitMpint ==
  /\ Connected
  /\ call \in MpintCalls
  /\ ret = Pending

CallAppendMpint ==
  /\ call.fn = "append_mpint"
  /\ ret = Pending
  /\ ret' = [done |-> FALSE,
             wire |-> append_mpint(<<>>, call.num, call.is_pos)]
  /\ UNCHANGED << runVars, call >>

CallExtractMpint ==
  /\ call.fn = "append_mpint"
  /\ ~ret.done
  /\ ret # Pending
  /\ ret' = [done |-> TRUE, wire |-> ret.wire,
             out |-> extract_mpint_unsigned(ret.wire)]
  /\ UNCHANGED << runVars, call >>

NextMpint == CallAppendMpint \/ CallExtractMpint

SpecMpint == InitMpint /\ [][NextMpint]_vars

(***************************************************************************)
(* SshStream::extract_string, extract_name_list and extract_mpint_unsigned *)
(* called on their own                                                     *)
(***************************************************************************)
\* the octets of a vector one by one
RECURSIVE Flat(_)
Flat(v) ==
  IF v = <<>> THEN <<>>
  ELSE [i \in 1..Head(v)[2] |-> Head(v)[1]] \o Flat(Tail(v))

\* str::split(","): the pieces between the commas, one empty piece for ""
RECURSIVE split(_, _)
split(s, piece) ==
  IF s = <<>> THEN << piece >>
  ELSE IF Head(s) = 44 THEN << piece >> \o split(Tail(s), <<>>)
  ELSE split(Tail(s), Append(piece, Head(s)))

\* SshStream::extract_name_list: the slices panic as in extract_string
extract_name_list(start) ==
  IF OctLen(start) < 4 THEN [outcome |-> "panic"]
  ELSE LET list_length == from_be_bytes(OctSlice(start, 0, 4)) IN
       IF list_length + 4 > OctLen(start) THEN [outcome |-> "panic"]
       ELSE [outcome |-> "ok",
             value |-> split(Flat(OctSlice(start, 4, list_length + 4)), <<>>),
             rest |-> OctSlice(start, list_length + 4, OctLen(start))]

\* the function under its name
extract(fn, start) ==
  CASE fn = "extract_string" -> extract_string(start)
    [] fn = "extract_name_list" -> extract_name_list(start)
    [] fn = "extract_mpint_unsigned" -> extract_mpint_unsigned(start)

ExtractFns ==
  { "extract_string", "extract_name_list", "extract_mpint_unsigned" }

\* length fields from 0 to MaxDeclared and one far beyond any buffer, each
\* cut to its first 0..4 octets, before at most MaxFieldOctets octets
MaxDeclared == 4
MaxFieldOctets == 3
Declared == (0..MaxDeclared) \cup { 16777216 }
FieldOctets == UNION { [1..n -> { 0, 44, 97 }] : n \in 0..MaxFieldOctets }

Buffers ==
  { OctCat(to_be_bytes(d), Octets(c)) : d \in Declared, c \in FieldOctets }
    \cup { OctSlice(to_be_bytes(d), 0, k) : d \in Declared, k \in 0..3 }

ExtractCalls ==
  { [fn |-> f, start |-> b] : f \in ExtractFns, b \in Buffers }

InitExtract ==
  /\ Connected
  /\ call \in ExtractCalls
  /\ ret = Pending

\* the call returns Ok or the thread panics
CallExtract ==
  /\ call.fn \in ExtractFns
  /\ ~ret.done
  /\ ret' = [done |-> TRUE, out |-> extract(call.fn, call.start)]
  /\ UNCHANGED << runVars, call >>

SpecExtract == InitExtract /\ [][CallExtract]_vars

(***************************************************************************)
(* Encrypter::generate_key called on its own                               *)
(***************************************************************************)
\* Octets here are a sequence of items: << "o", x >> is the octet x and
\* << "h", data, k >> the first k octets of hash_fn(data).
\* Sha256::digest gives HashLen octets.
HashLen == 32

hash_fn(data) == << << "h", data, HashLen >> >>

\* the items of literal octets
Literal(s) == [i \in 1..Len(s) |-> << "o", s[i] >>]

\* Vec::len
RECURSIVE ByteLen(_)
ByteLen(v) ==
  IF v = <<>> THEN 0
  ELSE (IF Head(v)[1] = "o" THEN 1 ELSE Head(v)[3]) + ByteLen(Tail(v))

\* Vec::truncate
RECURSIVE truncate(_, _)
truncate(v, len) ==
  IF v = <<>> \/ len <= 0 THEN <<>>
  ELSE IF Head(v)[1] = "o" THEN << Head(v) >> \o truncate(Tail(v), len - 1)
  ELSE IF Head(v)[3] >= len THEN << << "h", Head(v)[2], len >> >>
  ELSE << Head(v) >> \o truncate(Tail(v), len - Head(v)[3])

\* the shared secret in the form the first hash takes it
mpint_of(key) == Literal(Flat(append_mpint(<<>>, key, TRUE)))

\* generate_key, "while result.len() < output_len": hash_data is
\* Vec::from(key), the raw octets of the shared secret
RECURSIVE extend_key(_, _, _, _)
extend_key(key, hash, result, output_len) ==
  IF ByteLen(result) >= output_len THEN result
  ELSE extend_key(key, hash,
         result \o hash_fn(Literal(key) \o hash \o result), output_len)

\* generate_key, the hash before the loop
first_block(key, hash, letter, sid) ==
  hash_fn(mpint_of(key) \o hash \o Literal(<< letter >>) \o sid)

\* Encrypter::generate_key for any output length
generate_key_len(key, hash, letter, sid, output_len) ==
  truncate(extend_key(key, hash,
                      first_block(key, hash, letter, sid),
                      output_len),
           output_len)

\* shared secrets with and without a leading zero octet and a high first bit
Secrets == { << 1 >>, << 0, 128 >>, << 128, 1 >>, << 127, 255, 3 >> }

\* exchange hashes, of the first exchange and of a later one
HashValues == { hash_fn(Literal(<< 1 >>)), hash_fn(Literal(<< 2 >>)) }

\* lengths asked for: below the hash size, the two the callers use, and up
\* to MaxBlocks blocks
MaxBlocks == 3
OutputLens ==
  { 1, 16, HashLen, HashLen + 1, 48 }
    \cup { b * HashLen : b \in 2..MaxBlocks }

GenerateKeyCalls ==
  { [fn |-> "generate_key", key |-> k, exchange_hash |-> h, char |-> c,
     session_id |-> s, output_len |-> n] :
      k \in Secrets, h \in HashValues, c \in 65..70, s \in HashValues,
      n \in OutputLens }

InitGenerateKey ==
  /\ Connected
  /\ call \in GenerateKeyCalls
  /\ ret = Pending

CallGenerateKey ==
  /\ call.fn = "generate_key"
  /\ ~ret.done
  /\ ret' = [done |-> TRUE,
             value |-> generate_key_len(call.key, call.exchange_hash,
                                        call.char, call.session_id,
                                        call.output_len)]
  /\ UNCHANGED << runVars, call >>

SpecGenerateKey == InitGenerateKey /\ [][CallGenerateKey]_vars

(***************************************************************************)
(* Properties                                                              *)
(***************************************************************************)
\* CHANNEL_DATA packets the writer has assembled and not yet written
PendingData == IF snd["writer"].msg.kind = "data" THEN 1 ELSE 0

\* sends that hold the Encrypter's guard: MACed and encrypted, not yet written
InFlight == Cardinality({ t \in Threads : snd[t].stage = "encrypted" })

\* kinds of record that belong to the key exchange
KexKinds == { "kexinit", "ecdh_init", "newkeys" }

\* C1: in every interleaving of the reader and the writer, the remote window
\* never goes below zero; between the writer's observation of a non-zero
\* window and its decrement the writer holds the guard and the window is
\* still the value it observed; and every CHANNEL_DATA octet written or
\* about to be written was paid for by one decrement.
C1_WindowCredit ==
  /\ remote_window.hi >= 0
  /\ wpc = "w_dec" =>
       /\ winGuard = "writer"
       /\ WideIsPositive(wseen)
       /\ remote_window = wseen
  /\ sent["data"] + PendingData = decrements

\* the reader waits for the window guard to add a WINDOW_ADJUST amount while
\* the writer is between its observation and its decrement
C1_Witness ==
  /\ wpc = "w_dec"
  /\ pc = "sess_finish"
  /\ rafter.winop = "add"
  /\ WideIsPositive(rafter.winval)
  /\ sent["data"] > 0

\* C2: with the reader and the writer sending concurrently, the record
\* written last under the installed cipher is the k-th since activation, was
\* MACed over the activation value plus k, and was encrypted with the IV
\* blocks that follow those of the records before it; while a thread is
\* between MAC and write it holds the guard and no other send is at that
\* stage.
C2_RecordsInOrder ==
  /\ (encOn # 0 /\ wireLast.epoch = encOn) =>
       /\ wireLast.seq = actSend + wireLast.idx
       /\ wireLast.iv = wireLast.off
  /\ \A t \in Threads : snd[t].stage = "encrypted" => encGuard = t

\* the writer holds the guard in the middle of a send while the reader has
\* a record to send, after records of both were written
C2_Witness ==
  /\ encGuard = "writer"
  /\ snd["writer"].stage = "encrypted"
  /\ snd["reader"].stage = "want"
  /\ sent["data"] > 0
  /\ sent["shell"] > 0

\* C3: in every key exchange the client's NEWKEYS is written before the
\* peer's is read, nothing is under the new keys before both, and every
\* record sent or read up to then is framed with the state in force before
\* the exchange: cleartext in the first exchange, the installed cipher in a
\* re-exchange.
C3_FramedWithStateInForce ==
  /\ pc = "newkeys_wait" => sent["newkeys"] = kexNo
  /\ pc \in { "ecdh_send", "ecdh_wait", "newkeys_send", "newkeys_wait" } =>
       encOn < kexNo
  /\ pc = "ecdh_wait" =>
       wireLast.kind = "ecdh_init" /\ wireLast.epoch = kexNo - 1
  /\ pc = "newkeys_wait" =>
       wireLast.kind = "newkeys" /\ wireLast.epoch = kexNo - 1
  /\ (lastRead.keyed /\ lastRead.status = "ok") => lastRead.cipher

\* the KEX_ECDH_REPLY that was read carries a host-key signature that is not
\* an rsa-sha2-512 signature by an ssh-rsa key over this exchange's hash
SignatureRejected ==
  /\ reply.typ = SSH_MSG_KEX_ECDH_REPLY
  /\ reply.pointOk
  /\ \/ reply.keyType # "ssh-rsa"
     \/ ~reply.rsaOk
     \/ reply.sigType # "rsa-sha2-512"
     \/ reply.sigOver # ExchangeHash(kexNo)

\* C4: when the host-key signature over H does not verify, the key exchange
\* has failed: no NEWKEYS was sent, there are no keys and no cipher state,
\* and nothing of authentication was sent.
C4_BadSignatureFails ==
  SignatureRejected =>
    /\ pc = "error"
    /\ sent["newkeys"] = 0
    /\ keys = <<>>
    /\ encOn = 0
    /\ \A k \in SentKinds \ KexKinds : sent[k] = 0

\* a reply with a signature over another hash was read and the run has ended
C4_Witness ==
  /\ SignatureRejected
  /\ reply.keyType = "ssh-rsa"
  /\ reply.rsaOk
  /\ reply.sigType = "rsa-sha2-512"
  /\ pc = "error"

\* C5: a record of any kind but KEXINIT, KEX_ECDH_INIT and NEWKEYS is
\* written only framed with the installed cipher and MAC, after the first
\* key exchange has completed: its signature verified, NEWKEYS sent and read.
C5_NoCleartextAfterKex ==
  /\ wireLast.kind \notin KexKinds \cup { "none" } =>
       /\ wireLast.epoch # 0
       /\ wireLast.epoch = encOn
  /\ \A k \in SentKinds \ KexKinds : sent[k] > 0 =>
       /\ encOn # 0
       /\ sent["newkeys"] > 0
       /\ ~SignatureRejected
       /\ clearSent = 3

\* the password was sent and a channel request is the record written last
C5_Witness ==
  /\ sent["auth_password"] > 0
  /\ sent["service_request"] > 0
  /\ sent["channel_open"] > 0
  /\ wireLast.kind = "shell"
  /\ wireLast.epoch = 1

\* the MAC of the record read last is the one over the receive counter and
\* the record
TagVerifies == lastRead.tag.good /\ lastRead.tag.seq = lastRead.seq

\* C6: with a cipher installed, read returns a payload only when the MAC
\* verified over the receive counter and the record; a record whose MAC
\* does not verify ends in an error, whatever its length.
C6_MacBeforePayload ==
  lastRead.cipher =>
    /\ lastRead.status = "ok" => TagVerifies
    /\ ~TagVerifies => pc = "error"

\* a well-framed record with a wrong MAC was read under the cipher
C6_Witness ==
  /\ lastRead.cipher
  /\ lastRead.status = "bad_mac"
  /\ ~lastRead.tag.good
  /\ pc = "error"

\* C7: with a cipher installed the send counter is its value at activation
\* plus the records written plus the sends between MAC and write, and the
\* record written last was MACed over the counter as it was before its send.
C7_SendCounter ==
  encOn # 0 =>
    /\ packet_num_send = actSend + wireEnc + InFlight
    /\ wireLast.epoch = encOn => wireLast.seq < packet_num_send - InFlight
    /\ (wireLast.epoch = encOn /\ InFlight = 0) =>
         wireLast.seq = packet_num_send - 1

\* seven records were sent under the cipher, the last a WINDOW_ADJUST
C7_Witness ==
  /\ encOn # 0
  /\ wireEnc >= 7
  /\ sent["auth_password"] > 0
  /\ wireLast.kind = "window_adjust"
  /\ packet_num_send = actSend + 7
  /\ InFlight = 0

\* C8: with a cipher installed the receive counter is its value at
\* activation plus the records read returned successfully; a rejected record
\* leaves it where it was.
C8_RecvCounter ==
  encOn # 0 => packet_num_recieve = actRecv + accepted

\* C9: once the first key exchange has installed its cipher, the receive
\* counter started from the number of cleartext records read, skipped ones
\* included, and the send counter from the number of cleartext records
\* written, which are KEXINIT, KEX_ECDH_INIT and NEWKEYS.
C9_CountersAtActivation ==
  encOn = 1 =>
    /\ actRecv = clearRecvd
    /\ actSend = clearSent
    /\ clearSent = sent["kexinit"] + sent["ecdh_init"] + sent["newkeys"]
    /\ sent["kexinit"] = 1 /\ sent["ecdh_init"] = 1 /\ sent["newkeys"] = 1

\* the cipher was installed after a record of another type was skipped
C9_Witness ==
  /\ encOn = 1
  /\ skipped > 0
  /\ actRecv = 4
  /\ packet_num_recieve = 4

\* C10: the session identifier is the exchange hash of the first key
\* exchange in every cipher state, also one built by a re-exchange, whose
\* six keys are derived with that identifier as S and the new hash as H.
C10_SessionIdFixed ==
  encOn # 0 =>
    /\ session_id = ExchangeHash(1)
    /\ \A l \in Letters :
         /\ keys[l].S = ExchangeHash(1)
         /\ keys[l].H = ExchangeHash(encOn)
         /\ keys[l].L = l

\* a re-exchange has built its cipher state
C10_Witness ==
  /\ encOn = 2
  /\ exchange_hash = ExchangeHash(2)
  /\ pc = "kex_done"

(***************************************************************************)
(* C11: authenticate sends at most three password requests (the "none"     *)
(* probe is sent once and is not one of them), one per increment of the    *)
(* attempt counter; once three are out, every USERAUTH_FAILURE that still  *)
(* offers "password" ends the run with an error and no request, and the    *)
(* third password request is then the last record written                  *)
(***************************************************************************)
TooManyAttempts == lastRead.err = "Too many failed login attempts"

C11_PasswordCap ==
  /\ sent["auth_password"] <= 3
  /\ sent["auth_password"] = attempt_counter
  /\ sent["auth_none"] <= 1
  /\ (pc = "auth_loop" /\ attempt_counter = 3) =>
       \A m \in AuthFailureMsgs :
         (~m.short /\ Contains(m.methods, "password")) =>
           /\ AuthStep(m).pc = "error"
           /\ ~AuthStep(m).ask
  /\ TooManyAttempts =>
       /\ pc = "error"
       /\ sent["auth_password"] = 3
       /\ wireLast.kind = "auth_password"

C11_Witness ==
  /\ TooManyAttempts
  /\ pc = "error"
  /\ sent["auth_password"] = 3
  /\ sent["auth_none"] = 1

(***************************************************************************)
(* C12: whatever the attempt counter, a USERAUTH_FAILURE whose list of     *)
(* methods that can continue does not name "password" ends authenticate    *)
(* with an error at once: no password request is sent for it, and nothing  *)
(* is written after the request it answered                                *)
(***************************************************************************)
NoPasswordOffered ==
  lastRead.err = "Host does not support password authentication"

LacksPassword(m) == \A i \in 1..Len(m.methods) : m.methods[i] # "password"

C12_NoPasswordMethod ==
  /\ pc = "auth_loop" =>
       \A m \in AuthFailureMsgs :
         (~m.short /\ LacksPassword(m)) =>
           /\ AuthStep(m).pc = "error"
           /\ ~AuthStep(m).ask
           /\ AuthStep(m).err = "Host does not support password authentication"
  /\ NoPasswordOffered =>
       /\ pc = "error"
       /\ wireLast.kind \in { "auth_none", "auth_password" }
       /\ sent["auth_password"] = attempt_counter
       /\ sent["channel_open"] = 0

C12_Witness ==
  /\ NoPasswordOffered
  /\ pc = "error"
  /\ attempt_counter = 3
  /\ wireLast.kind = "auth_password"

(***************************************************************************)
(* C13: a CHANNEL_SUCCESS for channel 0 while the pty request is           *)
(* outstanding sends exactly one "shell" request and makes the phase       *)
(* Shell; while the shell request is outstanding it makes the phase None   *)
(* (running) and sends nothing; in the phase None, or for another          *)
(* channel, it sends nothing and leaves the phase.  In the run, the phase   *)
(* becomes Shell only together with one shell request on the wire, a       *)
(* shell request is written only then, and Shell is left for None without  *)
(* a record being written by the reader                                    *)
(***************************************************************************)
SuccessMsgs == { m \in ReplyMsgs : m.typ = SSH_MSG_CHANNEL_SUCCESS /\ ~m.short }

C13_SuccessHandler ==
  pc = "sess_read" =>
    \A m \in SuccessMsgs :
      LET h == Dispatch(m, TRUE) IN
      /\ h.res = "ok"
      /\ h.after.server_channel = server_channel
      /\ h.after.server_packet_max = server_packet_max
      /\ h.after.local_window = local_window
      /\ h.after.winop = "none"
      /\ (m.chan = 0 /\ state = "Pty") =>
           (h.send = MsgShell /\ h.after.state = "Shell")
      /\ (m.chan = 0 /\ state = "Shell") =>
           (h.send = NoMsg /\ h.after.state = "None")
      /\ (m.chan # 0 \/ state = "None") =>
           (h.send = NoMsg /\ h.after.state = state)

C13_PhaseSteps ==
  /\ (state' = "Shell" /\ state # "Shell") =>
       /\ state = "Pty"
       /\ sent' = [sent EXCEPT !["shell"] = @ + 1]
       /\ wireLast'.kind = "shell"
  /\ sent'["shell"] # sent["shell"] => (state = "Pty" /\ state' = "Shell")
  /\ (state = "Shell" /\ state' # "Shell") =>
       \/ state' = "None" /\ sent' = sent
       \/ state' = "Pty" /\ wireLast'.kind = "pty-req"

C13_ShellRequest == []C13_SuccessHandler /\ [][C13_PhaseSteps]_vars

C13_Witness ==
  /\ state = "None"
  /\ sent["shell"] = 1
  /\ sent["pty-req"] = 1
  /\ spawned

(***************************************************************************)
(* C14: a CHANNEL_FAILURE for channel 0 ends the run with an error when    *)
(* the pty request is outstanding and with another error when the shell    *)
(* request is outstanding, so that the error tells which request was       *)
(* refused; in the phase None, or for another channel, it is not fatal,    *)
(* sends nothing and changes nothing                                       *)
(***************************************************************************)
FailureMsgs == { m \in ReplyMsgs : m.typ = SSH_MSG_CHANNEL_FAILURE /\ ~m.short }

PtyRefused == lastRead.err = "Failed to open remote terminal"
ShellRefused == lastRead.err = "Failed to open a remote shell"

C14_RequestRefused ==
  /\ pc = "sess_read" =>
       \A m \in FailureMsgs :
         LET h == Dispatch(m, TRUE) IN
         /\ (m.chan = 0 /\ state = "Pty") =>
              (h.res = "error" /\ h.err = "Failed to open remote terminal")
         /\ (m.chan = 0 /\ state = "Shell") =>
              (h.res = "error" /\ h.err = "Failed to open a remote shell")
         /\ (m.chan # 0 \/ state = "None") =>
              (h.res = "ok" /\ h.send = NoMsg /\ h.after = Keep)
  /\ PtyRefused => (pc = "error" /\ state = "Pty" /\ sent["pty-req"] >= 1)
  /\ ShellRefused => (pc = "error" /\ state = "Shell" /\ sent["shell"] >= 1)

C14_Witness ==
  /\ ShellRefused
  /\ pc = "error"
  /\ state = "Shell"
  /\ wireLast.kind = "shell"

(***************************************************************************)
(* C15: a CHANNEL_OPEN_CONFIRMATION whose recipient channel is not 0 is    *)
(* fatal: the handler fails before it sends a pty request, and the step    *)
(* that ends the run with this error writes no record and leaves the       *)
(* remote channel, the remote window, the remote maximum packet size and   *)
(* the phase as they were                                                  *)
(***************************************************************************)
Unrequested ==
  lastRead.err = "Recieved confirmation for openning of unrequested channel"

StrayConfirms == { m \in ConfirmMsgs : ~m.short /\ m.chan # 0 }

C15_StrayRejected ==
  pc = "sess_read" =>
    \A m \in StrayConfirms, term \in BOOLEAN :
      LET h == Dispatch(m, term) IN
      /\ h.res = "error"
      /\ h.send = NoMsg
      /\ h.after = Keep
      /\ h.err = "Recieved confirmation for openning of unrequested channel"

C15_StrayStep ==
  (Unrequested' /\ ~Unrequested) =>
    /\ pc' = "error"
    /\ sent' = sent
    /\ UNCHANGED << state, server_channel, server_packet_max, remote_window,
                    local_window, snd, rafter >>

C15_UnrequestedConfirmation == []C15_StrayRejected /\ [][C15_StrayStep]_vars

C15_Witness ==
  /\ Unrequested
  /\ pc = "error"
  /\ sent["pty-req"] = 0
  /\ state = "None"

(***************************************************************************)
(* C16: over a whole connection the client writes exactly one CHANNEL_OPEN *)
(* (type "session", sender channel 0, window 2097152, maximum packet       *)
(* 32768): none before authenticate has returned on USERAUTH_SUCCESS, one  *)
(* from then on, and no message the server sends in the session, nor any   *)
(* it sends during authentication, causes another                          *)
(***************************************************************************)
BeforeOpen ==
  { "kexinit_send", "kexinit_wait", "ecdh_send", "ecdh_wait", "newkeys_send",
    "newkeys_wait", "kex_done", "accept_wait", "none_send", "auth_loop",
    "open_channel" }

SessionLoop == { "sess_read", "sess_send", "sess_finish" }

C16_OneOpen ==
  /\ sent["channel_open"] <= 1
  /\ pc \in BeforeOpen => sent["channel_open"] = 0
  /\ pc \in SessionLoop => sent["channel_open"] = 1
  /\ wireLast.kind = "channel_open" =>
       /\ wireLast.typ = SSH_MSG_CHANNEL_OPEN
       /\ wireLast.arg = <<"session", 0, 2097152, 32768>>
       /\ wireLast.epoch # 0
  /\ pc = "auth_loop" =>
       \A m \in AuthMsgs :
         AuthStep(m).pc = "open_channel" <=> m.typ = SSH_MSG_USERAUTH_SUCCESS
  /\ pc = "sess_read" =>
       \A m \in SessionMsgs, term \in BOOLEAN :
         Dispatch(m, term).send.kind # "channel_open"

C16_OpenSteps ==
  /\ sent'["channel_open"] # sent["channel_open"] =>
       /\ pc = "open_channel"
       /\ pc' = "sess_read"
       /\ local_window' = LocalWindow
  /\ (pc' = "open_channel" /\ pc # "open_channel") =>
       /\ pc = "auth_loop"
       /\ lastRead'.cipher
       /\ lastRead'.status = "ok"
       /\ sent' = sent

C16_SingleChannelOpen == []C16_OneOpen /\ [][C16_OpenSteps]_vars

C16_Witness ==
  /\ sent["channel_open"] = 1
  /\ pc = "sess_read"
  /\ sessMsgs = MaxSessMsgs
  /\ sent["pty-req"] = 1

(***************************************************************************)
(* C17: at every point of the session the octets of channel data the       *)
(* reader has accepted (CHANNEL_DATA and CHANNEL_EXTENDED_DATA for channel *)
(* 0) are at most the window it has advertised: 2097152 with the           *)
(* CHANNEL_OPEN and 2097152 more with every WINDOW_ADJUST written          *)
(***************************************************************************)
Advertised == LocalWindow * (1 + sent["window_adjust"])

C17_WithinAdvertised == dataAccepted <= Advertised

(***************************************************************************)
(* C18, as stated: a CHANNEL_DATA for channel 0 with n octets and a local  *)
(* window w >= n leaves w - n when w - n > 100, and when w - n <= 100      *)
(* (exactly 100 included) sends one WINDOW_ADJUST of 2097152 for the       *)
(* remote channel and leaves w - n + 2097152; for another channel the      *)
(* window is unchanged and nothing is sent                                 *)
(***************************************************************************)
ChannelData ==
  { m \in DataMsgs : m.typ = SSH_MSG_CHANNEL_DATA /\ ~m.short }

C18_AdjustAtMost100 ==
  pc = "sess_read" =>
    \A m \in ChannelData :
      LET h == Dispatch(m, TRUE) IN
      /\ (m.chan = 0 /\ local_window >= m.n /\ local_window - m.n > 100) =>
           /\ h.send = NoMsg
           /\ h.after = [Keep EXCEPT !.local_window = local_window - m.n]
      /\ (m.chan = 0 /\ local_window >= m.n /\ local_window - m.n <= 100) =>
           /\ h.send = MsgWindowAdjust(server_channel)
           /\ h.after =
                [Keep EXCEPT !.local_window = local_window - m.n + 2097152]
      /\ m.chan # 0 => (h.res = "ok" /\ h.send = NoMsg /\ h.after = Keep)

(***************************************************************************)
(* C18, amended: the WINDOW_ADJUST is sent when w - n < 100; at exactly    *)
(* 100 the window is left at 100 and nothing is sent.  The window the loop *)
(* holds between two records is what was advertised less what was printed  *)
(***************************************************************************)
C18_AdjustBelow100 ==
  /\ pc = "sess_read" =>
       \A m \in ChannelData :
         LET h == Dispatch(m, TRUE) IN
         /\ (m.chan = 0 /\ local_window >= m.n /\ local_window - m.n >= 100) =>
              /\ h.send = NoMsg
              /\ h.after = [Keep EXCEPT !.local_window = local_window - m.n]
         /\ (m.chan = 0 /\ local_window >= m.n /\ local_window - m.n < 100) =>
              /\ h.send = MsgWindowAdjust(server_channel)
              /\ h.send.arg = <<server_channel, 2097152>>
              /\ h.after =
                   [Keep EXCEPT !.local_window = local_window - m.n + 2097152]
         /\ m.chan # 0 => (h.res = "ok" /\ h.send = NoMsg /\ h.after = Keep)
  /\ pc = "sess_read" => local_window = Advertised - dataAccepted

C18_Witness ==
  /\ pc = "sess_read"
  /\ local_window = 100
  /\ dataAccepted = LocalWindow - 100
  /\ sent["window_adjust"] = 0

(***************************************************************************)
(* C19: a WINDOW_ADJUST for channel 0 adds exactly the 32-bit amount it    *)
(* carries to the remote window, with the window's guard free for the      *)
(* reader to take, and the sum is not cut at 2^32; one for another channel *)
(* is not fatal and adds nothing; one shorter than 8 octets is an error    *)
(* and the step that ends the run with it leaves the window as it was      *)
(***************************************************************************)
AdjustCorrupt == lastRead.err = "Recieved corrupt window adjust packet"

\* c is a + b, limb by limb
ExactSum(a, b, c) ==
  /\ c.lo \in 0..(Limb - 1)
  /\ c.lo = (a.lo + b.lo) % Limb
  /\ c.hi = a.hi + b.hi + (a.lo + b.lo) \div Limb

C19_AdjustHandler ==
  pc = "sess_read" =>
    \A m \in AdjustMsgs :
      LET h == Dispatch(m, TRUE) IN
      /\ h.send = NoMsg
      /\ m.short => (h.res = "error" /\ h.after = Keep)
      /\ (~m.short /\ m.chan = 0) =>
           /\ h.res = "ok"
           /\ h.after = [Keep EXCEPT !.winop = "add", !.winval = m.amount]
      /\ (~m.short /\ m.chan # 0) =>
           /\ h.res = "ok"
           /\ h.after = [Keep EXCEPT !.winop = "add", !.winval = Wide(0)]

C19_AdjustSteps ==
  /\ (pc = "sess_finish" /\ rafter.winop = "add" /\ pc' # pc) =>
       /\ winGuard = "free"
       /\ ExactSum(remote_window, rafter.winval, remote_window')
  /\ (AdjustCorrupt' /\ ~AdjustCorrupt) =>
       /\ pc' = "error"
       /\ remote_window' = remote_window
  /\ remote_window' # remote_window =>
       \/ pc = "sess_finish" /\ pc' # pc
       \/ wpc = "w_dec" /\ wpc' # wpc

C19_WindowAdjust == []C19_AdjustHandler /\ [][C19_AdjustSteps]_vars

C19_Witness ==
  /\ pc = "sess_read"
  /\ remote_window.hi >= Limb
  /\ sent["pty-req"] = 0

(***************************************************************************)
(* C20: in every phase of the session loop a CHANNEL_OPEN from the server  *)
(* is answered with one CHANNEL_OPEN_FAILURE that carries the sender       *)
(* channel of the request and reason code 1; the handler leaves the phase, *)
(* both windows and the recorded remote channel, and so does the step that *)
(* writes the refusal                                                      *)
(***************************************************************************)
OpenRequests == { m \in ChannelOpenMsgs : ~m.short }

C20_DenyHandler ==
  /\ pc = "sess_read" =>
       \A m \in OpenRequests :
         LET h == Dispatch(m, TRUE) IN
         /\ h.res = "ok"
         /\ h.send.kind = "open_failure"
         /\ h.send.typ = SSH_MSG_CHANNEL_OPEN_FAILURE
         /\ h.send.arg = <<m.sender, 1>>
         /\ h.after = Keep
  /\ sent["open_failure"] <= sessMsgs
  /\ wireLast.kind = "open_failure" =>
       (wireLast.arg[1] \in { m.sender : m \in OpenRequests }
          /\ wireLast.arg[2] = 1)

C20_DenySteps ==
  sent'["open_failure"] # sent["open_failure"] =>
    /\ sent' = [sent EXCEPT !["open_failure"] = @ + 1]
    /\ pc = "sess_send"
    /\ pc' = "sess_read"
    /\ wireLast'.arg = snd["reader"].msg.arg
    /\ UNCHANGED << state, local_window, remote_window, server_channel,
                    server_packet_max >>

C20_ChannelOpenDenied == []C20_DenyHandler /\ [][C20_DenySteps]_vars

C20_Witness ==
  /\ pc = "sess_read"
  /\ state = "Shell"
  /\ wireLast.kind = "open_failure"
  /\ wireLast.arg = <<4, 1>>
  /\ server_channel = 3

(***************************************************************************)
(* C21: a CHANNEL_REQUEST from the server for channel 0 is answered by    *)
(* exactly one CHANNEL_FAILURE that carries the server's channel number    *)
(* when want-reply is set, and by nothing when it is clear; either way     *)
(* the loop goes on, and the phase and both windows stay as they were.     *)
(***************************************************************************)
OwnChannelRequests == { m \in ChannelRequestMsgs : ~m.short /\ m.chan = 0 }

C21_RequestHandler ==
  /\ pc = "sess_read" =>
       \A m \in OwnChannelRequests :
         LET h == Dispatch(m, TRUE) IN
         /\ h.res = "ok"
         /\ h.err = ""
         /\ h.after = Keep
         /\ m.want => /\ h.send.typ = SSH_MSG_CHANNEL_FAILURE
                      /\ h.send.arg = <<server_channel>>
         /\ ~m.want => h.send = NoMsg
  /\ sent["channel_failure"] <= sessMsgs
  /\ wireLast.kind = "channel_failure" =>
       wireLast.arg \in { <<c>> : c \in SrvChannels \cup {0} }

C21_RequestSteps ==
  sent'["channel_failure"] # sent["channel_failure"] =>
    /\ sent' = [sent EXCEPT !["channel_failure"] = @ + 1]
    /\ pc = "sess_send"
    /\ pc' = "sess_read"
    /\ wireLast'.arg = <<server_channel>>
    /\ UNCHANGED << state, local_window, remote_window, server_channel,
                    server_packet_max >>

C21_ChannelRequest == []C21_RequestHandler /\ [][C21_RequestSteps]_vars

C21_Witness ==
  /\ pc = "sess_read"
  /\ state = "None"
  /\ wireLast.kind = "channel_failure"
  /\ wireLast.arg = <<3>>
  /\ sent["channel_failure"] = 1

(***************************************************************************)
(* C22: at every stage that reads (the waits for KEXINIT, KEX_ECDH_REPLY,  *)
(* NEWKEYS and SERVICE_ACCEPT, the authentication loop, the session loop)  *)
(* an SSH_MSG_DISCONNECT that read returns ends the run with an Err; from  *)
(* then on the main thread reads no record and sends none.                 *)
(***************************************************************************)
DisconnectErr == "Host sent ssh disconnect message"

Disconnects(records, on) ==
  { r \in records : r.msg.typ = SSH_MSG_DISCONNECT /\ RecvStatus(r, on) = "ok" }

C22_DisconnectFatal ==
  /\ lastRead.err = DisconnectErr => pc = "error"
  /\ pc \in { "kexinit_wait", "ecdh_wait", "newkeys_wait" } =>
       \A r \in Disconnects(ClearRecords, FALSE) :
         \A w \in { SSH_MSG_KEXINIT, SSH_MSG_KEX_ECDH_REPLY, SSH_MSG_NEWKEYS } :
           /\ WaitOutcome(r, FALSE, w) = "error"
           /\ WaitErr(r, FALSE, w, FALSE, "") = DisconnectErr
  /\ pc = "accept_wait" =>
       \A r \in Disconnects(EncRecords(AuthMsgs), TRUE) :
         /\ WaitOutcome(r, TRUE, SSH_MSG_SERVICE_ACCEPT) = "error"
         /\ WaitErr(r, TRUE, SSH_MSG_SERVICE_ACCEPT, FALSE, "") = DisconnectErr
  /\ pc = "auth_loop" =>
       \A r \in Disconnects(EncRecords(AuthMsgs), TRUE) :
         /\ AuthStep(r.msg).pc = "error"
         /\ AuthStep(r.msg).err = DisconnectErr
  /\ pc = "sess_read" =>
       \A r \in Disconnects(EncRecords(SessionMsgs), TRUE) :
         /\ Dispatch(r.msg, TRUE).res = "error"
         /\ Dispatch(r.msg, TRUE).err = DisconnectErr
         /\ Dispatch(r.msg, TRUE).send = NoMsg

C22_DisconnectSteps ==
  lastRead.err = DisconnectErr =>
    /\ pc' = "error"
    /\ UNCHANGED << recvCtr, recvVars, accepted, dataAccepted, num_read,
                    sessMsgs, wireVars, sendCtr >>
    /\ snd'["reader"] = snd["reader"]

C22_DisconnectEnds == []C22_DisconnectFatal /\ [][C22_DisconnectSteps]_vars

C22_Witness ==
  /\ pc = "error"
  /\ lastRead.err = DisconnectErr
  /\ lastRead.cipher
  /\ spawned
  /\ sessMsgs >= 3
  /\ sent["data"] >= 1

C22_WitnessKex ==
  /\ pc = "error"
  /\ lastRead.err = DisconnectErr
  /\ ~lastRead.cipher
  /\ sent["ecdh_init"] = 1

(***************************************************************************)
(* C23: once the stop flag is set the writer eventually restores cooked    *)
(* mode and ends, whatever it was doing (unless the process has ended      *)
(* before).                                                                *)
(***************************************************************************)
WriterEnded == wpc = "w_done" /\ ~raw_mode

C23_StopEndsWriter == stop_flag ~> (WriterEnded \/ ~Alive)

\* the same, for a flag set while the writer is between two key events
C23_StopBetweenKeys ==
  (stop_flag /\ wpc = "w_poll") ~> (WriterEnded \/ ~Alive)

\* the flag is set while wait_for_window turns on a window of zero
C23_BlockedOnWindow ==
  /\ stop_flag
  /\ wpc = "w_wait"
  /\ remote_window = Wide(0)
  /\ wseen = Wide(0)
  /\ raw_mode

(***************************************************************************)
(* C24: a resize event makes the writer send one CHANNEL_REQUEST           *)
(* "window-change" for its channel with want-reply clear, the new width    *)
(* and height and zero pixel sizes; the send takes the Encrypter's Mutex   *)
(* and advances the send counter by one; the remote window is neither      *)
(* read nor changed, and no CHANNEL_DATA is sent for the event.            *)
(***************************************************************************)
ResizeRequests ==
  { <<wchannel, "window-change", FALSE, sz[1], sz[2], 0, 0>> :
      sz \in TerminalSizes }

ResizePending == snd["writer"].msg.kind = "window-change"

C24_ResizeInv ==
  /\ ResizePending =>
       /\ wpc = "w_send"
       /\ snd["writer"].msg.typ = SSH_MSG_CHANNEL_REQUEST
       /\ snd["writer"].msg.arg \in ResizeRequests
       /\ snd["writer"].stage = "encrypted" => encGuard = "writer"
  /\ wireLast.kind = "window-change" => wireLast.arg \in ResizeRequests
  /\ sent["window-change"] + (IF ResizePending THEN 1 ELSE 0) <= wkeys

C24_ResizeSteps ==
  /\ (ResizePending' /\ ~ResizePending) =>
       /\ wpc = "w_poll" /\ wkeys' = wkeys + 1
       /\ snd'["writer"].stage = "want"
       /\ UNCHANGED << remote_window, winGuard, decrements, wseen, sent,
                       sendCtr >>
  /\ (ResizePending /\ snd'["writer"].stage # snd["writer"].stage) =>
       IF snd["writer"].stage = "want"
       THEN /\ encGuard = "free" /\ encGuard' = "writer"
            /\ packet_num_send' = packet_num_send + 1
            /\ UNCHANGED << remote_window, winGuard, decrements, wseen, sent >>
       ELSE /\ sent' = [sent EXCEPT !["window-change"] = @ + 1]
            /\ wireLast'.arg = snd["writer"].msg.arg
            /\ wireLast'.seq = packet_num_send - 1 - InFlight'
            /\ encGuard' = "free"
            /\ wpc' = "w_poll"
            /\ snd'["writer"] = Idle
            /\ UNCHANGED << remote_window, winGuard, decrements, wseen,
                            sendCtr >>

C24_WindowChange == []C24_ResizeInv /\ [][C24_ResizeSteps]_vars

\* the request went out while the remote window was 0 and before any key
C24_Witness ==
  /\ wireLast.kind = "window-change"
  /\ wireLast.arg = <<3, "window-change", FALSE, 132, 43, 0, 0>>
  /\ remote_window = Wide(0)
  /\ sent["window-change"] = 1
  /\ sent["data"] = 0
  /\ decrements = 0
  /\ wpc = "w_poll"

(***************************************************************************)
(* C25: until the shell request has been granted the writer does not       *)
(* exist: through key exchange, authentication, the opening of the         *)
(* channel and the pty and shell requests no CHANNEL_DATA and no           *)
(* window-change request is written, the writer holds no Mutex and has no  *)
(* send in progress, so every record written is the main thread's.         *)
(***************************************************************************)
WriterAbsent ==
  /\ wpc = "w_none"
  /\ snd["writer"] = Idle
  /\ encGuard # "writer"
  /\ winGuard # "writer"
  /\ ~raw_mode
  /\ wkeys = 0
  /\ decrements = 0
  /\ sent["data"] = 0
  /\ sent["window-change"] = 0

C25_ReaderAlone ==
  /\ ~spawned => WriterAbsent
  /\ pc \in BeforeOpen => ~spawned
  /\ (sent["pty-req"] = 0 \/ sent["shell"] = 0) => ~spawned
  /\ (sent["shell"] = 1 /\ wireLast.kind = "shell" /\ state = "Shell") =>
       ~spawned

C25_StartSteps ==
  /\ spawned' # spawned =>
       /\ spawned'
       /\ pc = "sess_read" /\ pc' = "sess_read"
       /\ state = "Shell" /\ state' = "None"
       /\ lastRead'.status = "ok"
       /\ wpc' = "w_poll"
       /\ sent' = sent
  /\ (~spawned /\ sent' # sent) =>
       /\ snd'["writer"] = Idle
       /\ \/ pc \notin SessionLoop
          \/ snd["reader"].stage = "encrypted" /\ snd'["reader"] = Idle

C25_WitnessStarted ==
  /\ spawned
  /\ sent["data"] = 1
  /\ sent["shell"] = 1
  /\ state = "None"

(***************************************************************************)
(* C26: after Esc is pressed while the shell runs, the writer sends the    *)
(* one octet 27 as its last record and ends with cooked mode restored, and *)
(* the client then terminates: the loop of run ends too.                   *)
(***************************************************************************)
\* the writer has ended on an Esc key
EscQuit == wesc /\ wpc = "w_done"

C26_EscEndsClient == EscQuit ~> ~Alive

\* what does hold once the window lets the octet out: the writer's last
\* record is CHANNEL_DATA with the octet 27, and cooked mode is restored
C26_EscLastRecord ==
  EscQuit =>
    /\ ~raw_mode
    /\ wdata = <<>>
    /\ snd["writer"] = Idle
    /\ sent["data"] >= 1
    /\ (wireLast.kind \in { "data", "window-change" }) =>
         wireLast.arg = <<wchannel, 1, 27>>

\* the writer is gone, the main thread is in read
C26_ReaderGoesOn ==
  /\ EscQuit
  /\ pc = "sess_read"
  /\ wireLast.arg = <<3, 1, 27>>
  /\ ~raw_mode

(***************************************************************************)
(* C27: for every client list and every server list negotiate_alg returns  *)
(* the first name of the client list, in the client's order, that occurs   *)
(* anywhere in the server list, whatever the order of the server list, and *)
(* returns its Err exactly when the lists have no name in common.          *)
(***************************************************************************)
Names(list) == { list[i] : i \in 1..Len(list) }

C27_FirstClientName ==
  (call.fn = "negotiate_alg" /\ ret.done) =>
    LET client == call.client
        server == call.server
        common == { i \in 1..Len(client) : client[i] \in Names(server) }
    IN  /\ common = {} <=> ret.value = NoAlg
        /\ common = {} <=> ret.err = "Could not find compatible algorithms"
        /\ common # {} =>
             \E i \in common :
               /\ ret.value = client[i]
               /\ \A k \in 1..(i - 1) : client[k] \notin Names(server)
        /\ \A other \in NameLists :
             Names(other) = Names(server) =>
               negotiate_alg(client, other) = ret.value

\* the client prefers a name the server lists last
C27_Witness ==
  /\ ret.done
  /\ call.fn = "negotiate_alg"
  /\ call.client =
       <<"aes256-ctr", "aes128-ctr", "chacha20-poly1305@openssh.com">>
  /\ call.server = <<"chacha20-poly1305@openssh.com", "aes256-ctr">>
  /\ ret.value = "aes256-ctr"

\* no name in common
C27_WitnessNone ==
  /\ ret.done
  /\ call.fn = "negotiate_alg"
  /\ call.client = <<"aes256-ctr">>
  /\ call.server = <<"chacha20-poly1305@openssh.com", "aes128-ctr">>
  /\ ret.err = "Could not find compatible algorithms"

(***************************************************************************)
(* C28: for every payload length p >= 1 and block size b in {8, 16} the    *)
(* padding send chooses is the smallest value of at least 4 for which      *)
(* p + padding + 5 is a multiple of b; it is at most 255, and              *)
(* packet_length = p + padding + 1 is at least 12.                         *)
(***************************************************************************)
C28_SmallestPadding ==
  (call.fn = "padding" /\ ret.done) =>
    LET p == call.payload_length
        b == IF call.on THEN 16 ELSE 8
        pad == ret.padding_length
    IN  /\ p >= 1
        /\ pad >= 4
        /\ pad <= 255
        /\ (p + pad + 5) % b = 0
        /\ \A q \in 4..(pad - 1) : (p + q + 5) % b # 0
        /\ ret.packet_length = p + pad + 1
        /\ ret.packet_length >= 12

\* a payload of one octet with no cipher: two octets would fill the block,
\* ten are sent
C28_Witness ==
  /\ ret.done
  /\ call.fn = "padding"
  /\ call.payload_length = 1
  /\ ~call.on
  /\ ret.padding_length = 10
  /\ ret.packet_length = 12

\* a payload that ends on a block boundary gets a whole block of padding
C28_WitnessFullBlock ==
  /\ ret.done
  /\ call.fn = "padding"
  /\ call.payload_length = 11
  /\ call.on
  /\ ret.padding_length = 16
  /\ ret.packet_length = 28

(***************************************************************************)
(* C29: read rejects on its length field every record whose packet_length  *)
(* is below 12, above 34996, or such that packet_length + 4 is not a       *)
(* multiple of the block size (8 with no cipher, 16 with one), and rejects *)
(* no record on its length field when none of the three is the case.       *)
(***************************************************************************)
LengthErrs == { "too_small", "too_large", "unaligned" }

C29_LengthChecks ==
  (call.fn = "read" /\ ret.done) =>
    LET b == IF call.on THEN 16 ELSE 8
        bad == \/ call.len < 12
               \/ call.len > 34996
               \/ (call.len + 4) % b # 0
    IN  bad <=> ret.status \in LengthErrs

\* what read does do: the two limits are tested, the alignment is not; with
\* a cipher a length off the block size ends in the Err of decrypt
C29_RangeChecks ==
  (call.fn = "read" /\ ret.done) =>
    /\ ret.status = "too_small" <=> call.len < 12
    /\ ret.status = "too_large" <=> call.len > 34996
    /\ ret.status # "unaligned"
    /\ ret.status = "decrypt_size" <=>
         (call.on /\ call.len \in 12..34996 /\ (call.len + 4) % 16 # 0)

\* thirteen octets announced with no cipher: read goes on to the payload
C29_Unaligned ==
  /\ ret.done
  /\ call.fn = "read"
  /\ ~call.on
  /\ call.len = 13
  /\ call.pad = 4
  /\ ret.status = "framed"

(***************************************************************************)
(* C30: a payload framed by send under a cipher state and decoded by read  *)
(* under the matching state comes back with its message type and its       *)
(* octets; the send counter and the receive counter have each advanced by  *)
(* one and the two IV counters by the same number of 16-octet blocks.      *)
(***************************************************************************)
RoundTripDone == call.fn = "roundtrip" /\ ret.done

Returned ==
  /\ ret.out.status = "ok"
  /\ ret.out.typ = call.typ
  /\ ret.out.payload = call.body
  /\ ret.wire.enc.packet_num = call.enc.packet_num + 1
  /\ ret.out.enc.packet_num = call.enc.packet_num + 1
  /\ ret.wire.enc.iv = ret.out.enc.iv
  /\ ret.wire.enc.iv = call.enc.iv + (ret.wire.packet_length + 4) \div 16

C30_WitnessLargest ==
  /\ RoundTripDone
  /\ call.body = OctFill(120, 34982)
  /\ ret.wire.packet_length = 34988
  /\ ret.out.status = "ok"

\* one octet more and read refuses what send has framed
C30_TooLarge ==
  /\ RoundTripDone
  /\ call.body = OctFill(120, 34983)
  /\ ret.wire.packet_length = 35004
  /\ ret.out.status = "too_large"

(***************************************************************************)
(* C31                                                                     *)
(***************************************************************************)
\* the place in the stream of the first line that begins with "SSH-", 0 when
\* the stream ends before one
FirstVersionLine(s) ==
  IF \E i \in 1..Len(s) : starts_with(s[i], SshDash)
  THEN CHOOSE i \in 1..Len(s) :
         /\ starts_with(s[i], SshDash)
         /\ \A j \in 1..(i - 1) : ~starts_with(s[j], SshDash)
  ELSE 0

\* C31: in the version exchange the lines that do not begin with "SSH-" are
\* skipped; the first line that does is rejected, and no KEXINIT is ever
\* sent, if it does not end with CR LF, is longer than 255 octets with its
\* terminator, or does not begin with "SSH-2."; a stream that ends before
\* such a line is an error; otherwise the client's and the server's version
\* strings without CR LF are the first two strings of the exchange-hash
\* prefix, the client's first.
C31_VersionExchange ==
  (call.fn = "exchange_versions" /\ ret.done) =>
    LET s == call.stream
        i == FirstVersionLine(s)
    IN  /\ ~ret.ok => (sent["kexinit"] = 0 /\ pc = "error" /\ ret.err # "")
        /\ IF i = 0
           THEN ~ret.ok /\ ret.err = "Did not recieve version info from host"
           ELSE IF \/ ~ends_with(s[i], CrLf)
                   \/ OctLen(s[i]) > 255
                   \/ ~starts_with(s[i], SshTwo)
           THEN ~ret.ok
           ELSE /\ ret.ok
                /\ LET first == extract_string(ret.value) IN
                   /\ first.outcome = "ok"
                   /\ first.value = CLIENT_VERSION
                   /\ LET second == extract_string(first.rest) IN
                      /\ second.outcome = "ok"
                      /\ OctCat(second.value, CrLf) = s[i]
                      /\ second.rest = <<>>

\* a banner line is skipped, the version line of exactly 255 octets is
\* taken, and the KEXINIT has gone out
C31_Witness ==
  /\ call.fn = "exchange_versions"
  /\ ret.done
  /\ ret.ok
  /\ Len(call.stream) = 2
  /\ ~starts_with(call.stream[1], SshDash)
  /\ OctLen(call.stream[2]) = 255
  /\ sent["kexinit"] = 1

\* a version line of 256 octets that is well formed otherwise is refused
C31_WitnessTooLong ==
  /\ call.fn = "exchange_versions"
  /\ ret.done
  /\ ~ret.ok
  /\ Len(call.stream) = 1
  /\ starts_with(call.stream[1], SshTwo)
  /\ ends_with(call.stream[1], CrLf)
  /\ OctLen(call.stream[1]) = 256

(***************************************************************************)
(* C32                                                                     *)
(***************************************************************************)
\* two strings of octets are the same integer when one is the other after
\* some zero octets
SameInteger(a, b) ==
  \E k \in 0..(OctLen(a) + OctLen(b)) :
    a = OctCat(OctFill(0, k), b) \/ b = OctCat(OctFill(0, k), a)

\* C32: for a non-negative integer given as a big-endian magnitude, with or
\* without leading zero octets, append_mpint with positive = true writes the
\* minimal encoding: a string that is empty for 0, whose first octet is
\* below 0x80, that starts with 0x00 only when the next octet is 0x80 or
\* more, and that holds the same integer; extract_mpint_unsigned on it
\* returns that integer and an empty remainder.
C32_MpintRoundTrip ==
  (call.fn = "append_mpint" /\ call.is_pos /\ ret # Pending) =>
    LET n == Octets(call.num)
        field == extract_string(ret.wire)
    IN  /\ field.outcome = "ok"
        /\ field.rest = <<>>
        /\ SameInteger(n, <<>>) = (field.value = <<>>)
        /\ SameInteger(field.value, n)
        /\ field.value # <<>> =>
             /\ OctAt(field.value, 0) < 128
             /\ OctAt(field.value, 0) = 0 =>
                  (OctLen(field.value) >= 2 /\ OctAt(field.value, 1) >= 128)
        /\ ret.done =>
             /\ ret.out.outcome = "ok"
             /\ SameInteger(ret.out.value, n)
             /\ ret.out.rest = <<>>

\* 00 00 80: two zero octets are dropped and one is put back for the sign
C32_Witness ==
  /\ call.fn = "append_mpint"
  /\ call.is_pos
  /\ call.num = << 0, 0, 128 >>
  /\ ret.done
  /\ ret.wire = Octets(<< 0, 0, 0, 2, 0, 128 >>)
  /\ ret.out.value = OctFill(128, 1)

\* 00 00: the value 0 is the empty string
C32_WitnessZero ==
  /\ call.fn = "append_mpint"
  /\ call.is_pos
  /\ call.num = << 0, 0 >>
  /\ ret.done
  /\ ret.wire = OctFill(0, 4)
  /\ ret.out.value = <<>>

(***************************************************************************)
(* C33                                                                     *)
(***************************************************************************)
\* the buffer is shorter than a length field, or than the field it declares
Truncated(start) ==
  \/ OctLen(start) < 4
  \/ from_be_bytes(OctSlice(start, 0, 4)) > OctLen(start) - 4

\* C33: extract_string, extract_name_list and extract_mpint_unsigned return
\* an error value, and do not crash or abort the client, whenever the buffer
\* holds fewer than 4 octets or the declared length is more than the octets
\* that remain after the length field; on success they return the field and
\* the exact suffix they did not consume.
C33_ErrorNotCrash ==
  (call.fn \in ExtractFns /\ ret.done) =>
    IF Truncated(call.start)
    THEN ret.out.outcome = "err"
    ELSE /\ ret.out.outcome = "ok"
         /\ \E n \in 0..OctLen(call.start) :
              /\ OctSlice(call.start, 0, 4) = to_be_bytes(n)
              /\ ret.out.rest = OctSlice(call.start, 4 + n, OctLen(call.start))

\* what holds: a buffer that is long enough gives the field and the suffix
C33_SuccessExact ==
  (call.fn \in ExtractFns /\ ret.done /\ ~Truncated(call.start)) =>
    /\ ret.out.outcome = "ok"
    /\ LET n == OctLen(call.start) - 4 - OctLen(ret.out.rest)
           field == OctSlice(call.start, 4, 4 + n)
       IN  /\ OctSlice(call.start, 0, 4) = to_be_bytes(n)
           /\ OctCat(field, ret.out.rest)
                = OctSlice(call.start, 4, OctLen(call.start))
           /\ call.fn = "extract_string" => ret.out.value = field
           /\ call.fn = "extract_mpint_unsigned" =>
                SameInteger(ret.out.value, field)
           /\ call.fn = "extract_name_list" =>
                /\ \A i \in 1..Len(ret.out.value) :
                     \A j \in 1..Len(ret.out.value[i]) :
                       ret.out.value[i][j] # 44
                /\ Len(ret.out.value)
                     = 1 + Cardinality({ j \in 1..n : OctAt(field, j - 1) = 44 })

\* three octets where a string should be: the slice of the length field
\* panics
C33_ShortBufferPanics ==
  /\ call.fn = "extract_string"
  /\ call.start = OctFill(0, 3)
  /\ ret.done
  /\ ret.out.outcome = "panic"

\* a list that declares four octets and holds three
C33_OverrunPanics ==
  /\ call.fn = "extract_name_list"
  /\ call.start = Octets(<< 0, 0, 0, 4, 97, 44, 97 >>)
  /\ ret.done
  /\ ret.out.outcome = "panic"

(***************************************************************************)
(* C34                                                                     *)
(***************************************************************************)
\* well-formed CHANNEL_OPEN_FAILUREs
OpenFailures ==
  { m \in SessionMsgs : m.typ = SSH_MSG_CHANNEL_OPEN_FAILURE /\ ~m.short }

\* the CHANNEL_OPEN has gone out and nothing has confirmed it
OpenUnanswered ==
  pc = "sess_read" /\ sent["channel_open"] = 1 /\ server_channel = 0

\* C34: when the server answers the client's CHANNEL_OPEN with a
\* CHANNEL_OPEN_FAILURE, the session ends with an error that carries the
\* server's reason; the client does not stay in the session loop waiting for
\* further messages.
C34_OpenFailureEnds ==
  OpenUnanswered =>
    \A m \in OpenFailures :
      LET h == Dispatch(m, TRUE) IN h.res = "error" /\ h.err # ""

\* what holds: the failure is printed and the loop reads the next record
\* with nothing sent and nothing changed
C34_OpenFailureIgnored ==
  pc = "sess_read" =>
    \A m \in OpenFailures :
      LET h == Dispatch(m, TRUE) IN
      h.res = "ok" /\ h.err = "" /\ h.send = NoMsg /\ h.after = Keep

\* the loop is back at its read after one record, with the channel still
\* unconfirmed
C34_StillWaiting ==
  /\ OpenUnanswered
  /\ sessMsgs = 1
  /\ lastRead.status = "ok"
  /\ lastRead.err = ""

(***************************************************************************)
(* C35                                                                     *)
(***************************************************************************)
RECURSIVE SumSent(_)
SumSent(kinds) ==
  IF kinds = {} THEN 0
  ELSE LET k == CHOOSE x \in kinds : TRUE IN sent[k] + SumSent(kinds \ {k})

\* records the client has written to the connection
RecordsSent == SumSent(SentKinds)

\* a re-exchange has just built its cipher state
Rekeyed == pc = "kex_done" /\ encOn >= 2

\* C35: on a key re-exchange the new state's send counter is the number of
\* records sent on the connection so far and its receive counter the number
\* of records received so far, the KEX_ECDH_INIT, KEX_ECDH_REPLY and both
\* NEWKEYS of the re-exchange included; neither is reset or left behind.
\* (The key exchange reads every record with read(None), so the records
\* received are those clearRecvd counts.)
C35_CountersCarried ==
  Rekeyed =>
    /\ packet_num_send = RecordsSent
    /\ packet_num_recieve = clearRecvd

\* what holds: the send counter is carried over and counts every record
\* written, and the receive counter is the old state's, which the reads of
\* the re-exchange did not advance
C35_SendCarried ==
  /\ pc = "kex_done" => packet_num_send = RecordsSent
  /\ Rekeyed => packet_num_recieve < clearRecvd

C35_ReceiveSteps ==
  (old /\ pc \in { "ecdh_wait", "newkeys_wait" }) =>
    (packet_num_recieve' = packet_num_recieve \/ pc' = "error")

C35_ReceiveLeftBehind == []C35_SendCarried /\ [][C35_ReceiveSteps]_vars

\* the second cipher state starts with the first one's receive counter after
\* two more records were read
C35_Behind ==
  /\ Rekeyed
  /\ encOn = 2
  /\ packet_num_recieve = 3
  /\ clearRecvd = 5
  /\ packet_num_send = 5

(***************************************************************************)
(* C36                                                                     *)
(***************************************************************************)
\* the key blocks with the shared secret as an mpint in every hash input:
\* K1 = hash(mpint(K) || H || letter || session_id) and then
\* K1 || .. || Kn || hash(mpint(K) || H || K1 || .. || Kn), n blocks in all
RECURSIVE KeyBlocks(_, _, _, _, _)
KeyBlocks(k, h, c, s, n) ==
  IF n = 1 THEN hash_fn(mpint_of(k) \o h \o Literal(<< c >>) \o s)
  ELSE LET before == KeyBlocks(k, h, c, s, n - 1) IN
       before \o hash_fn(mpint_of(k) \o h \o before)

\* C36: generate_key hashes the shared secret in its mpint encoding in every
\* hash input, the first block and each extension block, and returns the
\* concatenation of the blocks cut to exactly output_length octets, for
\* lengths below, equal to and above the hash output size.
C36_KeyDerivation ==
  (call.fn = "generate_key" /\ ret.done) =>
    LET n == (call.output_len + HashLen - 1) \div HashLen IN
    /\ ByteLen(ret.value) = call.output_len
    /\ ret.value
         = truncate(KeyBlocks(call.key, call.exchange_hash, call.char,
                              call.session_id, n),
                    call.output_len)

\* what holds: the length for every call, and the value for the lengths that
\* one hash output covers
C36_FirstBlock ==
  (call.fn = "generate_key" /\ ret.done) =>
    /\ ByteLen(ret.value) = call.output_len
    /\ call.output_len <= HashLen =>
         ret.value
           = truncate(KeyBlocks(call.key, call.exchange_hash, call.char,
                                call.session_id, 1),
                      call.output_len)
    /\ call.output_len > HashLen =>
         /\ truncate(ret.value, HashLen)
              = KeyBlocks(call.key, call.exchange_hash, call.char,
                          call.session_id, 1)
         /\ ret.value[2][2]
              = Literal(call.key) \o call.exchange_hash
                  \o truncate(ret.value, HashLen)

\* 48 octets are asked for: the second block hashes the raw secret
C36_SecondBlockRaw ==
  /\ call.fn = "generate_key"
  /\ call.output_len = 48
  /\ call.key = << 1 >>
  /\ ret.done
  /\ ret.value[2][3] = 16
  /\ Head(ret.value[2][2]) = << "o", 1 >>

(***************************************************************************)
(* C37                                                                     *)
(***************************************************************************)
\* the type the key exchange waits for at each of its reads
WaitType ==
  CASE pc = "kexinit_wait" -> SSH_MSG_KEXINIT
    [] pc = "ecdh_wait" -> SSH_MSG_KEX_ECDH_REPLY
    [] pc = "newkeys_wait" -> SSH_MSG_NEWKEYS
    [] OTHER -> 0

\* well-framed records of another type than the one waited for
OtherTypes == { r \in ClearRecords :
                  RecvStatus(r, FALSE) = "ok" /\ r.msg.typ # WaitType }

\* C37: while the client waits for KEXINIT, KEX_ECDH_REPLY or NEWKEYS, a
\* record of any other message type is a fatal protocol deviation: the key
\* exchange fails with an error; the record is not skipped with the wait
\* going on.
C37_OtherTypeFatal ==
  /\ skipped = 0
  /\ pc \in { "kexinit_wait", "ecdh_wait", "newkeys_wait" } =>
       \A r \in OtherTypes : WaitOutcome(r, FALSE, WaitType) = "error"

\* what holds: only a DISCONNECT ends the wait; a record of any other type
\* is counted and the wait goes on
C37_OtherTypeSkipped ==
  pc \in { "kexinit_wait", "ecdh_wait", "newkeys_wait" } =>
    \A r \in OtherTypes :
      WaitOutcome(r, FALSE, WaitType)
        = IF r.msg.typ = SSH_MSG_DISCONNECT THEN "error" ELSE "skip"

\* the cipher of the first exchange was built although a record of another
\* type arrived during the waits
C37_SkippedAndBuilt ==
  /\ pc = "kex_done"
  /\ encOn = 1
  /\ skipped > 0
  /\ lastRead.err = ""

(***************************************************************************)
(* C38                                                                     *)
(***************************************************************************)
\* the writer is in wait_for_window with an octet of a key to send
Blocked == Alive /\ wpc = "w_wait" /\ wdata # <<>>

\* C38, the wait: with the guards handed over fairly, a writer that is
\* blocked with a pending octet gets out of wait_for_window once the window
\* is positive, as it is after the reader has processed a
\* CHANNEL_WINDOW_ADJUST with a positive amount for channel 0, and the
\* CHANNEL_DATA record it then assembles is written (unless the run has
\* ended with an error in between).
C38_WindowUnblocks ==
  /\ (Blocked /\ remote_window # Wide(0)) ~> (wpc = "w_send" \/ ~Alive)
  /\ (wpc = "w_send" /\ snd["writer"].msg.kind = "data")
       ~> (snd["writer"] = Idle \/ ~Alive)

\* C38, the order: every CHANNEL_DATA record carries one octet, the first of
\* those pending; octets leave the pending ones from the front only, and the
\* octets of the next key are taken when none of this key is left.
C38_OrderSteps ==
  /\ sent'["data"] # sent["data"] =>
       /\ sent'["data"] = sent["data"] + 1
       /\ wdata # <<>>
       /\ wireLast'.arg = << wchannel, 1, Head(wdata) >>
       /\ wdata' = Tail(wdata)
  /\ wdata' # wdata =>
       \/ wdata # <<>> /\ wdata' = Tail(wdata) /\ sent'["data"] = sent["data"] + 1
       \/ wdata = <<>> /\ wpc = "w_poll"

C38_AdjustUnblocks == C38_WindowUnblocks /\ [][C38_OrderSteps]_vars

\* what holds: the order of the octets
C38_InOrder == [][C38_OrderSteps]_vars

\* after the WINDOW_ADJUST a second CHANNEL_OPEN_CONFIRMATION has set the
\* window to 0 before the writer looked at it again
C38_BlockedAgain ==
  /\ Blocked
  /\ wseen = Wide(0)
  /\ remote_window = Wide(0)
  /\ sessMsgs = 5
  /\ wireLast.kind = "pty-req"
  /\ sent["data"] = 0

\* the writer found the window at 0 and is still waiting; the reader has
\* since added a WINDOW_ADJUST to it
C38_Witness ==
  /\ Blocked
  /\ wseen = Wide(0)
  /\ remote_window # Wide(0)
  /\ lastRead.status = "ok"
  /\ sessMsgs > 3

\* the second octet of a key has gone out after the first
C38_WitnessSecondOctet ==
  /\ wireLast.kind = "data"
  /\ wireLast.arg = << wchannel, 1, 169 >>
  /\ sent["data"] = 2
  /\ wdata = <<>>


(***************************************************************************)
(* C39: one pty-req, one shell request, and a phase that only advances     *)
(***************************************************************************)
\* the phase of the channel as run holds it: state tells the request whose
\* answer is awaited, and None is the phase before the confirmation until
\* the shell request has been sent and the running phase after it
PhaseRank ==
  CASE state = "Pty" -> 2
    [] state = "Shell" -> 3
    [] OTHER -> IF sent["shell"] > 0 THEN 4 ELSE 1

\* C39: over any sequence of server messages the client sends at most one
\* pty-req and at most one shell request, and the phase never moves
\* backwards: a second CHANNEL_OPEN_CONFIRMATION sends no pty-req and does
\* not return the phase to the one that awaits the terminal's answer.
C39_PhaseSteps == PhaseRank' >= PhaseRank
C39_OneRequestEach ==
  /\ [](sent["pty-req"] <= 1 /\ sent["shell"] <= 1)
  /\ [][C39_PhaseSteps]_vars

\* a second confirmation has been answered with a second pty-req after the
\* shell request went out, and the terminal's answer is awaited again
C39_SecondPtyReq ==
  /\ sent["pty-req"] = 2
  /\ sent["shell"] = 1
  /\ state = "Pty"

\* a second success for the terminal request brings a second shell request
C39_SecondShell == sent["shell"] = 2


(***************************************************************************)
(* C40: the remote window is what the server granted less what the writer  *)
(* took                                                                    *)
(***************************************************************************)
\* what the step in hand adds to the server's grants: the window of a
\* CHANNEL_OPEN_CONFIRMATION or the amount of a CHANNEL_WINDOW_ADJUST for
\* channel 0, at the moment run stores it under the Mutex
GrantOfStep ==
  IF pc = "sess_finish" /\ pc' = "sess_read" /\ rafter.winop # "none"
  THEN rafter.winval ELSE Wide(0)

\* what the step in hand adds to the octets the writer has taken
TakenByStep == Wide(decrements' - decrements)

\* C40: in every reachable state remote_window = (window of the
\* CHANNEL_OPEN_CONFIRMATION) + (sum of the WINDOW_ADJUST amounts for channel
\* 0) - (octets for which the writer completed its check-and-decrement), and
\* so the CHANNEL_DATA octets sent never exceed the grant.  Both sides are 0
\* when the channel is opened, so the equation holds in every state exactly
\* when every step changes both sides alike; the window never being negative
\* and no octet being sent without a decrement give the consequence.
C40_GrantSteps ==
  WideAdd(remote_window', TakenByStep) = WideAdd(remote_window, GrantOfStep)
C40_GrantInv ==
  /\ remote_window.hi >= 0
  /\ sent["data"] <= decrements
C40_WindowIsGrantLessTaken == []C40_GrantInv /\ [][C40_GrantSteps]_vars

\* the writer's own steps and the additions of run keep the equation
C40_WriterAndAdjustSteps ==
  (pc = "sess_finish" /\ pc' = "sess_read" /\ rafter.winop = "set")
    \/ C40_GrantSteps
C40_ExceptConfirmation ==
  []C40_GrantInv /\ [][C40_WriterAndAdjustSteps]_vars

\* a confirmation is stored over a window that an earlier WINDOW_ADJUST has
\* made positive, before any pty-req was answered
C40_GrantOverwritten ==
  /\ pc = "sess_finish"
  /\ rafter.winop = "set"
  /\ remote_window = Wide(1)
  /\ decrements = 0
  /\ sent["pty-req"] = 1

====
